---- MODULE Spec2Model ----
(***************************************************************************)
(* Invoice extraction pipeline: regex_ocr.py (summary + line items) and    *)
(* extract_text_from_pdf.py (order numbers only).                          *)
(*                                                                         *)
(* A Python str is a sequence of one-character strings, so that the        *)
(* string operations of the code (strip, split, splitlines, lower,         *)
(* re.split, re.match, findall) are computed character by character.       *)
(***************************************************************************)
EXTENDS Integers, Sequences, FiniteSets, TLC

(***************************************************************************)
(* Bounds of the model                                                     *)
(***************************************************************************)
MaxLines == 4
MaxFrags == 3
MaxDocs == 3
MaxParts == 2
MaxPages == 3

(***************************************************************************)
(* str helpers                                                             *)
(***************************************************************************)
Whitespace == {" ", "\t", "\n", "\r", "\f"}

LineBreaks == {"\n", "\r", "\f"}

Digits == {"0", "1", "2", "3", "4", "5", "6", "7", "8", "9"}

UpperCase == <<"A", "B", "C", "D", "E", "F", "G", "H", "I", "J", "K", "L", "M", "N", "O", "P", "Q", "R", "S", "T", "U", "V", "W", "X", "Y", "Z">>

LowerCase == <<"a", "b", "c", "d", "e", "f", "g", "h", "i", "j", "k", "l", "m", "n", "o", "p", "q", "r", "s", "t", "u", "v", "w", "x", "y", "z">>

SeqToSet(s) == {s[k] : k \in 1..Len(s)}

Take(s, n) == SubSeq(s, 1, IF n < Len(s) THEN n ELSE Len(s))

\* the lower-case letter of each upper-case letter
ToLower ==
    [c \in SeqToSet(UpperCase) |->
        LowerCase[CHOOSE k \in 1..26 : UpperCase[k] = c]]

LowerChar(c) == IF c \in DOMAIN ToLower THEN ToLower[c] ELSE c

LowerStr(s) == [k \in 1..Len(s) |-> LowerChar(s[k])]

StartsWith(s, p) == Len(p) <= Len(s) /\ SubSeq(s, 1, Len(p)) = p

Contains(s, sub) ==
    \E k \in 0..(Len(s) - Len(sub)) : SubSeq(s, k + 1, k + Len(sub)) = sub

\* smallest position q >= p of s with s[q] \in S, Len(s) + 1 when none
NextIn(s, p, S) ==
    LET Q == {q \in p..Len(s) : s[q] \in S}
    IN  IF Q = {} THEN Len(s) + 1
        ELSE CHOOSE q \in Q : \A r \in Q : q <= r

\* smallest position q >= p of s with s[q] \notin S, Len(s) + 1 when none
NextNotIn(s, p, S) ==
    LET Q == {q \in p..Len(s) : s[q] \notin S}
    IN  IF Q = {} THEN Len(s) + 1
        ELSE CHOOSE q \in Q : \A r \in Q : q <= r

\* str.strip()
Strip(s) ==
    LET Q == {q \in 1..Len(s) : s[q] \notin Whitespace}
    IN  IF Q = {} THEN <<>>
        ELSE SubSeq(s, CHOOSE q \in Q : \A r \in Q : q <= r,
                       CHOOSE q \in Q : \A r \in Q : q >= r)

\* length of the whitespace run that starts at position p of s
WsRun(s, p) == NextNotIn(s, p, Whitespace) - p

\* str.split(): the maximal runs of non-whitespace characters
RECURSIVE SplitWsFrom(_, _, _)
SplitWsFrom(s, p, acc) ==
    LET b == NextNotIn(s, p, Whitespace)
        e == NextIn(s, b, Whitespace)
    IN  IF b > Len(s) THEN acc
        ELSE SplitWsFrom(s, e, Append(acc, SubSeq(s, b, e - 1)))

SplitWs(s) == SplitWsFrom(s, 1, <<>>)

\* str.splitlines(): "\r\n" is one line break, no empty last line
RECURSIVE SplitLinesFrom(_, _, _)
SplitLinesFrom(s, p, acc) ==
    LET e == NextIn(s, p, LineBreaks)
        n == IF e < Len(s) /\ s[e] = "\r" /\ s[e + 1] = "\n"
             THEN e + 2 ELSE e + 1
    IN  IF p > Len(s) THEN acc
        ELSE SplitLinesFrom(s, n, Append(acc, SubSeq(s, p, e - 1)))

SplitLines(s) == SplitLinesFrom(s, 1, <<>>)

\* sep.join(parts)
RECURSIVE Join(_, _)
Join(sep, parts) ==
    IF parts = <<>> THEN <<>>
    ELSE IF Len(parts) = 1 THEN parts[1]
    ELSE parts[1] \o sep \o Join(sep, Tail(parts))

(***************************************************************************)
(* regex_ocr.py: extract_line_items                                        *)
(***************************************************************************)
header_keywords ==
    << <<"d", "e", "s", "c", "r", "i", "p", "t", "i", "o", "n">>, <<"s", "k", "u">>, <<"q", "t", "y">>, <<"q", "u", "a", "n", "t", "i", "t", "y">>, <<"u", "n", "i", "t">>,
       <<"p", "r", "i", "c", "e">>, <<"a", "m", "o", "u", "n", "t">> >>

totals_keywords == << <<"t", "o", "t", "a", "l">>, <<"s", "u", "b", "t", "o", "t", "a", "l">>, <<"g", "s", "t">>, <<"g", "r", "a", "n", "d">> >>

\* one matching keyword is enough
IsHeaderLine_AnyKeyword(line) ==
    LET parts == SeqToSet(SplitWs(LowerStr(line)))
    IN  \E k \in 1..Len(header_keywords) :
            \E part \in parts : Contains(LowerStr(part), header_keywords[k])

\* all(any(h in part.lower() for part in line.lower().split())
\*     for h in header_keywords)
IsHeaderLine(line) ==
    LET parts == SeqToSet(SplitWs(LowerStr(line)))
    IN  \A k \in 1..Len(header_keywords) :
            \E part \in parts : Contains(LowerStr(part), header_keywords[k])

\* re.match(r"(?i)(total|subtotal|gst|grand)", line)
MatchTotals(line) ==
    \E k \in 1..Len(totals_keywords) :
        StartsWith(LowerStr(line), totals_keywords[k])

\* only a blank line ends the table
IsTerminator_BlankOnly(line) == Strip(line) = <<>>

\* line.strip() == "" or re.match(...)
IsTerminator(line) == Strip(line) = <<>> \/ MatchTotals(line)

\* re.split(r'\s{2,}|\t', s): a separator is a run of two or more
\* whitespace characters, or one tab
RECURSIVE ReSplitFrom(_, _, _, _)
ReSplitFrom(s, p, cur, acc) ==
    IF p > Len(s) THEN Append(acc, cur)
    ELSE IF s[p] \in Whitespace /\ WsRun(s, p) >= 2
         THEN ReSplitFrom(s, p + WsRun(s, p), <<>>, Append(acc, cur))
         ELSE IF s[p] = "\t"
              THEN ReSplitFrom(s, p + 1, <<>>, Append(acc, cur))
              ELSE ReSplitFrom(s, p + 1, Append(cur, s[p]), acc)

ReSplitColumns(s) == ReSplitFrom(s, 1, <<>>, <<>>)

\* rows of 3 fields are kept as well
IsItemRow_Min3(fields) == Len(fields) >= 3

\* "if len(fields) >= 4"
IsItemRow(fields) == Len(fields) >= 4

\* every line that matches the header keywords is skipped as a header
RECURSIVE LineLoop_SkipsEveryHeader(_, _, _, _)
LineLoop_SkipsEveryHeader(lines, i, header_found, items) ==
    IF i > Len(lines) THEN items
    ELSE IF IsHeaderLine(lines[i])
         THEN LineLoop_SkipsEveryHeader(lines, i + 1, TRUE, items)
         ELSE IF header_found
              THEN IF IsTerminator(lines[i])
                   THEN items
                   ELSE LET fields == ReSplitColumns(Strip(lines[i]))
                        IN  IF IsItemRow(fields)
                            THEN LineLoop_SkipsEveryHeader(
                                     lines, i + 1, TRUE,
                                     Append(items, Take(fields, 5)))
                            ELSE LineLoop_SkipsEveryHeader(
                                     lines, i + 1, TRUE, items)
              ELSE LineLoop_SkipsEveryHeader(lines, i + 1, FALSE, items)

\* the body of "for i, line in enumerate(lines)"
RECURSIVE LineLoop(_, _, _, _)
LineLoop(lines, i, header_found, items) ==
    IF i > Len(lines) THEN items
    ELSE IF ~header_found /\ IsHeaderLine(lines[i])
         THEN LineLoop(lines, i + 1, TRUE, items)
         ELSE IF header_found
              THEN IF IsTerminator(lines[i])
                   THEN items
                   ELSE LET fields == ReSplitColumns(Strip(lines[i]))
                        IN  IF IsItemRow(fields)
                            THEN LineLoop(lines, i + 1, TRUE,
                                          Append(items, Take(fields, 5)))
                            ELSE LineLoop(lines, i + 1, TRUE, items)
              ELSE LineLoop(lines, i + 1, FALSE, items)

extract_line_items(text) == LineLoop(SplitLines(text), 1, FALSE, <<>>)

(***************************************************************************)
(* ORDER_PATTERN, extract_fields, extract_order_numbers                    *)
(***************************************************************************)
\* (?i) literal match of lit at position p of text
MatchLit(text, p, lit) ==
    /\ p + Len(lit) - 1 <= Len(text)
    /\ \A k \in 1..Len(lit) : LowerChar(text[p + k - 1]) = lit[k]

\* (3100\d{7}) at position p of text
IsOrderId(text, p) ==
    /\ p + 10 <= Len(text)
    /\ SubSeq(text, p, p + 3) = <<"3", "1", "0", "0">>
    /\ \A k \in 4..10 : text[p + k] \in Digits

\* (?:purchase\s*order|po|order\s*no\.?)? started at position s: the
\* positions at which the rest of the pattern can continue
OrderLabelEnds(text, s) ==
    LET afterPurchase == NextNotIn(text, s + 8, Whitespace)
        afterOrder == NextNotIn(text, s + 5, Whitespace)
    IN  {s}
        \cup (IF MatchLit(text, s, <<"p", "u", "r", "c", "h", "a", "s", "e">>)
                 /\ MatchLit(text, afterPurchase, <<"o", "r", "d", "e", "r">>)
              THEN {afterPurchase + 5} ELSE {})
        \cup (IF MatchLit(text, s, <<"p", "o">>) THEN {s + 2} ELSE {})
        \cup (IF MatchLit(text, s, <<"o", "r", "d", "e", "r">>)
                 /\ MatchLit(text, afterOrder, <<"n", "o">>)
              THEN {afterOrder + 2}
                   \cup (IF MatchLit(text, afterOrder + 2, <<".">>)
                         THEN {afterOrder + 3} ELSE {})
              ELSE {})

\* \s*[:\-]?\s* from position p, then the order id: the positions of the id
OrderIdAfter(text, p) ==
    LET a == NextNotIn(text, p, Whitespace)
        b == NextNotIn(text, a + 1, Whitespace)
    IN  (IF IsOrderId(text, a) THEN {a} ELSE {})
        \cup (IF a <= Len(text) /\ text[a] \in {":", "-"}
                 /\ IsOrderId(text, b)
              THEN {b} ELSE {})

\* the positions of group 1 of the matches of ORDER_PATTERN that start at s
OrderMatchAt(text, s) ==
    UNION {OrderIdAfter(text, e) : e \in OrderLabelEnds(text, s)}

\* ORDER_PATTERN.findall(text): group 1 of the non-overlapping matches,
\* scanning from left to right
RECURSIVE OrderFindallFrom(_, _, _)
OrderFindallFrom(text, p, acc) ==
    LET S == {s \in p..Len(text) : OrderMatchAt(text, s) # {}}
        s == CHOOSE q \in S : \A r \in S : q <= r
        g == CHOOSE q \in OrderMatchAt(text, s) : TRUE
    IN  IF S = {} THEN acc
        ELSE OrderFindallFrom(text, g + 11,
                              Append(acc, SubSeq(text, g, g + 10)))

OrderFindall(text) == OrderFindallFrom(text, 1, <<>>)

CharCode(c) == CHOOSE k \in 0..9 : <<"0", "1", "2", "3", "4", "5", "6", "7", "8", "9">>[k + 1] = c

\* a < b for two str of digits
StrLess(a, b) ==
    \/ Len(a) < Len(b) /\ SubSeq(b, 1, Len(a)) = a
    \/ \E k \in 1..Len(a) :
          /\ k <= Len(b)
          /\ SubSeq(a, 1, k - 1) = SubSeq(b, 1, k - 1)
          /\ CharCode(a[k]) < CharCode(b[k])

\* sorted(S)
RECURSIVE Sorted(_)
Sorted(S) ==
    IF S = {} THEN <<>>
    ELSE LET m == CHOOSE x \in S : \A y \in S \ {x} : StrLess(x, y)
         IN  <<m>> \o Sorted(S \ {m})

(***************************************************************************)
(* The label + value patterns of regex_ocr.py. A pattern is a prefix       *)
(* (label and separators) followed by its value group, which ends the      *)
(* pattern. A regular expression is one of                                 *)
(*   <<"lit", s>>          the characters s, ignoring case ((?i))          *)
(*   <<"set", S, m, n>>    m to n characters of the set S, greedy          *)
(*   <<"not", S, m, n>>    m to n characters outside the set S, greedy     *)
(*   <<"seq", <<r, ...>>>> r followed by ...                               *)
(*   <<"alt", <<r, ...>>>> r | ...                                         *)
(*   <<"opt", r>>          r?                                              *)
(*   <<"star", r>>         r*                                              *)
(***************************************************************************)
\* no upper limit of a repetition
Unbounded == -1

Lit(s) == <<"lit", s>>

SetOf(S, m, n) == <<"set", S, m, n>>

NotOf(S, m, n) == <<"not", S, m, n>>

SeqOf(rs) == <<"seq", rs>>

AltOf(rs) == <<"alt", rs>>

Opt(r) == <<"opt", r>>

Star(r) == <<"star", r>>

\* the positions after a greedy repetition of m to n characters that starts
\* at position p where run characters qualify, longest first
RepeatEnds(p, run, m, n) ==
    LET top == IF n = Unbounded \/ run < n THEN run ELSE n
    IN  IF top < m THEN <<>>
        ELSE [k \in 1..(top - m + 1) |-> p + top - k + 1]

\* the positions at which a match of re that starts at position p of text
\* can end (the position of the next character), in the order in which the
\* backtracking matcher tries them
RECURSIVE Ends(_, _, _), SeqEnds(_, _, _), AltEnds(_, _, _), EachEnds(_, _, _)
Ends(re, text, p) ==
    CASE re[1] = "lit" ->
           IF MatchLit(text, p, re[2]) THEN <<p + Len(re[2])>> ELSE <<>>
      [] re[1] = "set" ->
           RepeatEnds(p, NextNotIn(text, p, re[2]) - p, re[3], re[4])
      [] re[1] = "not" ->
           RepeatEnds(p, NextIn(text, p, re[2]) - p, re[3], re[4])
      [] re[1] = "seq" -> SeqEnds(re[2], text, <<p>>)
      [] re[1] = "alt" -> AltEnds(re[2], text, p)
      [] re[1] = "opt" -> Ends(re[2], text, p) \o <<p>>
      [] re[1] = "star" ->
           EachEnds(re, text,
                    SelectSeq(Ends(re[2], text, p), LAMBDA e : e > p))
           \o <<p>>

\* the ends of rs[1] rs[2] ... started at each of the positions ps
SeqEnds(rs, text, ps) ==
    IF rs = <<>> THEN ps
    ELSE SeqEnds(Tail(rs), text, EachEnds(Head(rs), text, ps))

\* the ends of rs[1] | rs[2] | ... started at p
AltEnds(rs, text, p) ==
    IF rs = <<>> THEN <<>>
    ELSE Ends(Head(rs), text, p) \o AltEnds(Tail(rs), text, p)

\* the ends of re started at each of the positions ps, in that order
EachEnds(re, text, ps) ==
    IF ps = <<>> THEN <<>>
    ELSE Ends(re, text, Head(ps)) \o EachEnds(re, text, Tail(ps))

\* \s*
Ws == SetOf(Whitespace, 0, Unbounded)

Letters == SeqToSet(UpperCase) \cup SeqToSet(LowerCase)

\* [$€£]
Currency == {"$", "€", "£"}

NoMatch == [found |-> FALSE, value |-> <<>>, end |-> 0]

\* the match of prefix + (value) that starts at position s of text: the
\* text of the value group and the position after the match
MatchAt(prefix, value, text, s) ==
    LET starts == SelectSeq(Ends(prefix, text, s),
                            LAMBDA e : Ends(value, text, e) # <<>>)
        e == Head(Ends(value, text, Head(starts)))
    IN  IF starts = <<>> THEN NoMatch
        ELSE [found |-> TRUE,
              value |-> SubSeq(text, Head(starts), e - 1),
              end |-> e]

\* pattern.search(text) from position p on: the leftmost match
SearchFrom(prefix, value, text, p) ==
    IF \E s \in p..(Len(text) + 1) : MatchAt(prefix, value, text, s).found
    THEN MatchAt(prefix, value, text,
                 CHOOSE s \in p..(Len(text) + 1) :
                     /\ MatchAt(prefix, value, text, s).found
                     /\ \A r \in p..(s - 1) :
                            ~MatchAt(prefix, value, text, r).found)
    ELSE NoMatch

Search(pattern, text) == SearchFrom(pattern[1], pattern[2], text, 1)

\* pattern.findall(text): the value groups of the non-overlapping matches
RECURSIVE FindallFrom(_, _, _, _)
FindallFrom(pattern, text, p, acc) ==
    LET m == SearchFrom(pattern[1], pattern[2], text, p)
    IN  IF ~m.found THEN acc
        ELSE FindallFrom(pattern, text, m.end, Append(acc, m.value))

Findall(pattern, text) == FindallFrom(pattern, text, 1, <<>>)

\* [:#-]?
SepHash == SetOf({":", "#", "-"}, 0, 1)

\* [:\-]?
SepDash == SetOf({":", "-"}, 0, 1)

\* [A-Z0-9\-\/] under (?i)
IdChars == Letters \cup Digits \cup {"-", "/"}

\* \d{1,2}[\/\-\.]\d{1,2}[\/\-\.]\d{2,4}
DateValue ==
    SeqOf(<<SetOf(Digits, 1, 2), SetOf({"/", "-", "."}, 1, 1),
            SetOf(Digits, 1, 2), SetOf({"/", "-", "."}, 1, 1),
            SetOf(Digits, 2, 4)>>)

\* (invoice[\s:_#-]*no\.?|inv[\s:_#-]*number)
InvoiceLabel ==
    AltOf(<<SeqOf(<<Lit(<<"i", "n", "v", "o", "i", "c", "e">>),
                    SetOf(Whitespace \cup {":", "_", "#", "-"},
                          0, Unbounded),
                    Lit(<<"n", "o">>), Opt(Lit(<<".">>))>>),
            SeqOf(<<Lit(<<"i", "n", "v">>),
                    SetOf(Whitespace \cup {":", "_", "#", "-"},
                          0, Unbounded),
                    Lit(<<"n", "u", "m", "b", "e", "r">>)>>)>>)

\* the label is optional
INVOICE_PATTERN ==
    <<SeqOf(<<Opt(InvoiceLabel), Ws, SepHash, Ws>>),
      SetOf(IdChars, 4, Unbounded)>>

DATE_PATTERN ==
    <<SeqOf(<<AltOf(<<SeqOf(<<Lit(<<"i", "n", "v", "o", "i", "c", "e">>), Ws, Lit(<<"d", "a", "t", "e">>)>>),
                      SeqOf(<<Lit(<<"d", "a", "t", "e">>), Ws, Lit(<<"o", "f">>), Ws,
                              Lit(<<"i", "s", "s", "u", "e">>)>>)>>),
            Ws, SepHash, Ws>>),
      DateValue>>

DUE_DATE_PATTERN ==
    <<SeqOf(<<SeqOf(<<Lit(<<"d", "u", "e">>), Ws, Lit(<<"d", "a", "t", "e">>)>>),
            Ws, SepHash, Ws>>),
      DateValue>>

TOTAL_PATTERN ==
    <<SeqOf(<<AltOf(<<SeqOf(<<Lit(<<"g", "r", "a", "n", "d">>), Ws, Lit(<<"t", "o", "t", "a", "l">>)>>),
                      SeqOf(<<Lit(<<"t", "o", "t", "a", "l">>), Ws, Lit(<<"a", "m", "o", "u", "n", "t">>)>>),
                      SeqOf(<<Lit(<<"a", "m", "o", "u", "n", "t">>), Ws, Lit(<<"d", "u", "e">>)>>)>>),
            Ws,
            SetOf(Whitespace \cup {":", "$", "A", "U", "D", "a", "u", "d"},
                  0, Unbounded)>>),
      SeqOf(<<SetOf(Currency, 0, 1), Ws, SetOf(Digits, 1, 3),
              Star(SeqOf(<<Lit(<<",">>), SetOf(Digits, 3, 3)>>)),
              Opt(SeqOf(<<Lit(<<".">>), SetOf(Digits, 2, 2)>>))>>)>>

FREIGHT_PATTERN ==
    <<SeqOf(<<Opt(SeqOf(<<Lit(<<"f", "r", "e", "i", "g", "h", "t">>),
                          SetOf(Whitespace \cup {"_"}, 0, Unbounded),
                          Opt(Lit(<<"i", "n", "c">>)),
                          SetOf(Whitespace \cup {"_"}, 0, Unbounded),
                          Lit(<<"g", "s", "t">>)>>)),
            Ws, SepDash, Ws>>),
      SeqOf(<<SetOf(Currency, 0, 1), Ws, SetOf(Digits, 1, Unbounded),
              Opt(SeqOf(<<Lit(<<".">>), SetOf(Digits, 2, 2)>>))>>)>>

SUPPLIER_PATTERN ==
    <<SeqOf(<<AltOf(<<Lit(<<"f", "r", "o", "m">>), Lit(<<"s", "e", "l", "l", "e", "r">>), Lit(<<"v", "e", "n", "d", "o", "r">>),
                      Lit(<<"s", "u", "p", "p", "l", "i", "e", "r">>)>>),
            Ws, SepDash, Ws>>),
      NotOf({"\n"}, 1, Unbounded)>>

ABN_PATTERN ==
    <<SeqOf(<<AltOf(<<Lit(<<"a", "b", "n">>),
                      SeqOf(<<Lit(<<"g", "s", "t">>), Ws, Lit(<<"n", "u", "m", "b", "e", "r">>)>>),
                      SeqOf(<<Lit(<<"v", "a", "t">>), Ws, Lit(<<"n", "u", "m", "b", "e", "r">>)>>),
                      SeqOf(<<Lit(<<"t", "a", "x">>), Ws, Lit(<<"i", "d">>)>>)>>),
            SetOf(Whitespace \cup {":"}, 0, Unbounded)>>),
      SetOf(Letters \cup Digits \cup {"-", " "}, 8, Unbounded)>>

PO_PATTERN ==
    <<SeqOf(<<AltOf(<<SeqOf(<<Lit(<<"p", "o">>),
                              SetOf(Whitespace \cup {"_", "-"}, 0, 1),
                              Lit(<<"n", "u", "m", "b", "e", "r">>)>>),
                      SeqOf(<<Lit(<<"p", "u", "r", "c", "h", "a", "s", "e">>), Ws, Lit(<<"o", "r", "d", "e", "r">>)>>),
                      Lit(<<"r", "e", "f", "e", "r", "e", "n", "c", "e">>)>>),
            Ws, SepHash, Ws>>),
      SetOf(IdChars, 4, Unbounded)>>

\* str.split(sep) for a non-empty separator
RECURSIVE SplitOnFrom(_, _, _, _)
SplitOnFrom(s, sep, p, acc) ==
    LET Q == {q \in p..(Len(s) - Len(sep) + 1) :
                 SubSeq(s, q, q + Len(sep) - 1) = sep}
        q == CHOOSE x \in Q : \A y \in Q : x <= y
    IN  IF Q = {} THEN Append(acc, SubSeq(s, p, Len(s)))
        ELSE SplitOnFrom(s, sep, q + Len(sep),
                         Append(acc, SubSeq(s, p, q - 1)))

SplitOn(s, sep) == SplitOnFrom(s, sep, 1, <<>>)

\* a pattern without a match gives the text None
GroupOrEmpty_None(m) == IF m.found THEN Strip(m.value) ELSE <<"N", "o", "n", "e">>

\* m.group(2).strip() if m else ''
GroupOrEmpty(m) == IF m.found THEN Strip(m.value) ELSE <<>>

\* the first match of the freight pattern is taken
FreightValue_First(freight) ==
    IF freight # <<>> THEN Strip(freight[1]) ELSE <<"0", ".", "0", "0">>

\* freight[-1][2].strip() if freight else '0.00'
FreightValue(freight) ==
    IF freight # <<>> THEN Strip(freight[Len(freight)]) ELSE <<"0", ".", "0", "0">>

\* the matches are joined without the set
extract_fields_NoSet(text) ==
    LET order == OrderFindall(text)
        supplier == Search(SUPPLIER_PATTERN, text)
        freight == Findall(FREIGHT_PATTERN, text)
    IN  [order_number |->
            IF order # <<>> THEN Join(<<",", " ">>, order) ELSE <<>>,
         invoice_number |-> GroupOrEmpty(Search(INVOICE_PATTERN, text)),
         invoice_date |-> GroupOrEmpty(Search(DATE_PATTERN, text)),
         due_date |-> GroupOrEmpty(Search(DUE_DATE_PATTERN, text)),
         total_amount |-> GroupOrEmpty(Search(TOTAL_PATTERN, text)),
         freight_inc_gst |-> FreightValue(freight),
         supplier |->
            IF supplier.found
            THEN Strip(SplitOn(supplier.value, <<"\n">>)[1]) ELSE <<>>,
         abn |-> GroupOrEmpty(Search(ABN_PATTERN, text)),
         po_number |-> GroupOrEmpty(Search(PO_PATTERN, text))]

\* the dict returned by extract_fields
extract_fields(text) ==
    LET order == OrderFindall(text)
        supplier == Search(SUPPLIER_PATTERN, text)
        freight == Findall(FREIGHT_PATTERN, text)
    IN  [order_number |->
            IF order # <<>>
            THEN Join(<<",", " ">>, Sorted(SeqToSet(order))) ELSE <<>>,
         invoice_number |-> GroupOrEmpty(Search(INVOICE_PATTERN, text)),
         invoice_date |-> GroupOrEmpty(Search(DATE_PATTERN, text)),
         due_date |-> GroupOrEmpty(Search(DUE_DATE_PATTERN, text)),
         total_amount |-> GroupOrEmpty(Search(TOTAL_PATTERN, text)),
         freight_inc_gst |-> FreightValue(freight),
         supplier |->
            IF supplier.found
            THEN Strip(SplitOn(supplier.value, <<"\n">>)[1]) ELSE <<>>,
         abn |-> GroupOrEmpty(Search(ABN_PATTERN, text)),
         po_number |-> GroupOrEmpty(Search(PO_PATTERN, text))]

\* the order of the keys of the dict literal of extract_fields
field_keys ==
    <<"order_number", "invoice_number", "invoice_date", "due_date",
      "total_amount", "freight_inc_gst", "supplier", "abn", "po_number">>

\* the orders in which list(set(matches)) can enumerate the set
ListOfSet(S) ==
    {l \in [1..Cardinality(S) -> S] :
        \A j, k \in 1..Cardinality(S) : j # k => l[j] # l[k]}

\* the matches are returned without the set
extract_order_numbers_NoSet(text) == {OrderFindall(text)}

\* the lists extract_order_numbers can return
extract_order_numbers(text) == ListOfSet(SeqToSet(OrderFindall(text)))

(***************************************************************************)
(* The batch: main and process_pdf of regex_ocr.py and of                  *)
(* extract_text_from_pdf.py                                                *)
(***************************************************************************)
VARIABLES
    script,          \* which of the two scripts runs
    pdf_files,       \* list(input_dir.glob('*.pdf')), names of the files
    i,               \* position of the for loop of main in pdf_files
    pc,              \* position of the control in main / process_pdf
    text,            \* process_pdf: the local variable text
    ocr,             \* process_pdf: what run_ocr returned
    ret,             \* what process_pdf returned to main
    results,         \* regex_ocr.main: the dict results, in insertion order
    extracted_data,  \* extract_text_from_pdf.main: the list extracted_data
    summary_csv,     \* the file csv_summary_path
    line_csv,        \* the file csv_line_items_path
    onedrive,        \* the two copies under onedrive_path
    csv_output,      \* the file csv_output_path
    direct,          \* what extract_text_from_pdf(pdf_path) returned
    ocr_calls,       \* number of run_ocr invocations for the current file
    ocr_text,        \* what extract_text_from_pdf(ocr_pdf_path) returned
    usable,          \* names of the processed files that yielded usable text
    log,             \* the entries main and write_to_csv wrote to the log
    arg,             \* argument of the function under evaluation
    res,             \* its result
    call             \* name of the evaluated function, "none" before

vars == <<script, pdf_files, i, pc, text, ocr, ret, results, extracted_data,
          summary_csv, line_csv, onedrive, csv_output, direct, ocr_calls,
          ocr_text, usable, log, arg, res, call>>

batch_vars == <<script, pdf_files, i, pc, text, ocr, ret, results,
                extracted_data, summary_csv, line_csv, onedrive, csv_output,
                direct, ocr_calls, ocr_text, usable, log>>

fn_vars == <<arg, res, call>>

Scripts == {"regex_ocr", "extract_text_from_pdf"}

PdfNames == <<"a.pdf", "b.pdf", "c.pdf", "d.pdf", "e.pdf">>

\* a file that was not written
NoFile == [written |-> FALSE, header |-> <<>>, rows |-> <<>>]

\* a written file: its header row (<<>> when it has none) and its rows
File(header, rows) == [written |-> TRUE, header |-> header, rows |-> rows]

\* the value of a text variable before its assignment
NoText == <<"unassigned">>

EmptyDict == <<>>

\* texts a PDF (or its OCR copy) can yield
TextEmpty == <<>>

TextBlank == <<" ", "\n", "\n", " ">>

TextOrders == <<"O", "r", "d", "e", "r", " ", "N", "o", ":", " ", "3", "1", "0", "0", "1", "2", "3", "4", "5", "6", "7", "\n", "P", "O", "-", "3", "1", "0", "0", "7", "6", "5", "4", "3", "2", "1", "\n", "O", "r", "d", "e", "r", " ", "N", "o", ":", " ", "3", "1", "0", "0", "1", "2", "3", "4", "5", "6", "7", "\n", "D", "e", "s", "c", "r", "i", "p", "t", "i", "o", "n", " ", "S", "K", "U", " ", "Q", "t", "y", "/", "Q", "u", "a", "n", "t", "i", "t", "y", " ", "U", "n", "i", "t", " ", "P", "r", "i", "c", "e", " ", "A", "m", "o", "u", "n", "t", "\n", "B", "o", "l", "t", " ", " ", " ", "B", "-", "3", " ", " ", " ", "4", " ", " ", " ", "1", ".", "5", "0", " ", " ", " ", "6", ".", "0", "0", "\n">>

TextInvoice == <<"P", "O", " ", "3", "1", "0", "0", "5", "5", "5", "0", "0", "0", "1", "\n", "D", "e", "s", "c", "r", "i", "p", "t", "i", "o", "n", " ", "S", "K", "U", " ", "Q", "t", "y", "/", "Q", "u", "a", "n", "t", "i", "t", "y", " ", "U", "n", "i", "t", " ", "P", "r", "i", "c", "e", " ", "A", "m", "o", "u", "n", "t", "\n", "W", "i", "d", "g", "e", "t", " ", " ", " ", "W", "-", "1", " ", " ", " ", "2", " ", " ", " ", "1", "0", ".", "0", "0", " ", " ", " ", "2", "0", ".", "0", "0", "\n", "N", "u", "t", " ", " ", "N", "-", "4", " ", " ", "9", " ", " ", "0", ".", "1", "0", "\n", "T", "o", "t", "a", "l", " ", " ", " ", "2", "6", ".", "0", "0", "\n">>

TextPlain == <<"p", "a", "i", "d">>

DocTexts == {TextEmpty, TextBlank, TextOrders, TextInvoice, TextPlain}

\* outcomes of subprocess.run(['ocrmypdf', ...], check=True): exit code 0,
\* CalledProcessError, or another error (the command cannot be started)
OcrOutcomes == {"exit0", "nonzero", "oserror"}

\* every dict counts as true
Truthy_Always(d) == TRUE

\* truth value of a dict
Truthy(d) == DOMAIN d # {}

\* the new entry replaces the entries collected before
DictPut_DropsEarlier(d, key, value) ==
    <<[pdf_filename |-> key, fields |-> value.fields, items |-> value.items]>>

\* results[key] = value
DictPut(d, key, value) ==
    IF \E k \in 1..Len(d) : d[k].pdf_filename = key
    THEN [k \in 1..Len(d) |->
             IF d[k].pdf_filename = key
             THEN [pdf_filename |-> key, fields |-> value.fields,
                   items |-> value.items]
             ELSE d[k]]
    ELSE Append(d, [pdf_filename |-> key, fields |-> value.fields,
                    items |-> value.items])

BatchIdle ==
    /\ script = "none" /\ pdf_files = <<>> /\ i = 0 /\ pc = "idle"
    /\ text = NoText /\ ocr = FALSE /\ ret = <<>> /\ results = <<>>
    /\ extracted_data = <<>> /\ summary_csv = NoFile /\ line_csv = NoFile
    /\ onedrive = NoFile /\ csv_output = NoFile /\ direct = NoText
    /\ ocr_calls = 0 /\ ocr_text = NoText /\ usable = {} /\ log = <<>>

FnIdle == arg = NoText /\ res = <<>> /\ call = "idle"

\* the start of the script, before its module-level statements ran;
\* pdf_files is what input_dir.glob('*.pdf') is going to find
Init ==
    /\ script \in Scripts
    /\ \E n \in 0..MaxDocs : pdf_files = SubSeq(PdfNames, 1, n)
    /\ i = 1
    /\ pc = "import"
    /\ text = NoText /\ ocr = FALSE /\ ret = <<>>
    /\ results = <<>> /\ extracted_data = <<>>
    /\ summary_csv = NoFile /\ line_csv = NoFile /\ onedrive = NoFile
    /\ csv_output = NoFile
    /\ direct = NoText /\ ocr_calls = 0 /\ ocr_text = NoText /\ usable = {}
    /\ log = <<>>
    /\ FnIdle

\* how the module-level mkdir calls can end: both directories exist
\* afterwards, or onedrive_path.mkdir raises (regex_ocr.py only), or
\* ocr_output_dir.mkdir raises
MkdirOutcomes == {"ok", "onedrive_mkdir_fails", "ocr_dir_mkdir_fails"}

\* the module-level statements: "onedrive_path.mkdir(parents=True,
\* exist_ok=True)" and "ocr_output_dir.mkdir(parents=True, exist_ok=True)"
\* are not guarded, an error ends the script before main is called
ImportModule ==
    /\ pc = "import"
    /\ \E o \in MkdirOutcomes :
          /\ o = "onedrive_mkdir_fails" => script = "regex_ocr"
          /\ pc' = CASE o = "ok" -> "loop"
                      [] o = "onedrive_mkdir_fails" -> "onedrive_mkdir_raised"
                      [] o = "ocr_dir_mkdir_fails" -> "ocr_dir_mkdir_raised"
    /\ UNCHANGED <<script, pdf_files, i, text, ocr, ret, results,
                   extracted_data, summary_csv, line_csv, onedrive,
                   csv_output, direct, ocr_calls, ocr_text, usable, log>>
    /\ UNCHANGED fn_vars

\* the text the current file finally yielded: the directly extracted text,
\* or the text of the OCR copy when run_ocr returned True
FinalText ==
    IF Strip(direct) # <<>> THEN direct
    ELSE IF ocr_text # NoText THEN ocr_text ELSE direct

\* the OCR fallback runs for every text
NeedsOcr_Always(t) == TRUE

\* a text that is not empty counts as usable
HasText_NonEmpty(t) == t # <<>>

\* process_pdf: "if text.strip()", the text is usable
HasText(t) == Strip(t) # <<>>

\* process_pdf: "if not text.strip()", the text needs the OCR fallback
NeedsOcr(t) == Strip(t) = <<>>

\* process_pdf: text = extract_text_from_pdf(pdf_path)
AcquireText ==
    /\ pc = "loop" /\ i <= Len(pdf_files)
    /\ \E t \in DocTexts : text' = t /\ direct' = t
    /\ pc' = "acquired"
    /\ ocr' = FALSE /\ ocr_calls' = 0 /\ ocr_text' = NoText
    /\ UNCHANGED <<script, pdf_files, i, ret, results, extracted_data,
                   summary_csv, line_csv, onedrive, csv_output, usable, log>>
    /\ UNCHANGED fn_vars

\* run_ocr is tried again after a failure
RunOcr_Retries ==
    /\ pc = "acquired" /\ NeedsOcr(text)
    /\ ocr_calls' = ocr_calls + 1
    /\ \E o \in OcrOutcomes :
          IF script = "extract_text_from_pdf" /\ o = "oserror"
          THEN ocr' = FALSE /\ pc' = "ocr_raised"
          ELSE /\ ocr' = (o = "exit0")
               /\ pc' = IF o = "exit0" THEN "ocr_returned" ELSE "acquired"
    /\ UNCHANGED <<script, pdf_files, i, text, ret, results, extracted_data,
                   summary_csv, line_csv, onedrive, csv_output, direct,
                   ocr_text, usable, log>>
    /\ UNCHANGED fn_vars

\* process_pdf: run_ocr(pdf_path, ocr_pdf_path) when text.strip() is empty.
\* regex_ocr.run_ocr turns every error into False; the run_ocr of
\* extract_text_from_pdf.py catches CalledProcessError only, every other
\* error leaves run_ocr as an exception.
RunOcr ==
    /\ pc = "acquired" /\ NeedsOcr(text)
    /\ ocr_calls' = ocr_calls + 1
    /\ \E o \in OcrOutcomes :
          IF script = "extract_text_from_pdf" /\ o = "oserror"
          THEN ocr' = FALSE /\ pc' = "ocr_raised"
          ELSE ocr' = (o = "exit0") /\ pc' = "ocr_returned"
    /\ UNCHANGED <<script, pdf_files, i, text, ret, results, extracted_data,
                   summary_csv, line_csv, onedrive, csv_output, direct,
                   ocr_text, usable, log>>
    /\ UNCHANGED fn_vars

\* subprocess.run is called without a timeout: when ocrmypdf never exits,
\* run_ocr never returns
RunOcrNoReturn ==
    /\ pc = "acquired" /\ NeedsOcr(text)
    /\ ocr_calls' = ocr_calls + 1
    /\ pc' = "ocr_waiting"
    /\ UNCHANGED <<script, pdf_files, i, text, ocr, ret, results,
                   extracted_data, summary_csv, line_csv, onedrive,
                   csv_output, direct, ocr_text, usable, log>>
    /\ UNCHANGED fn_vars

\* the text of the OCR copy is read but text keeps the original value
ReAcquireText_KeepsText ==
    /\ script = "regex_ocr"
    /\ pc = "ocr_returned" /\ ocr
    /\ \E t \in DocTexts : ocr_text' = t
    /\ pc' = "reacquired"
    /\ UNCHANGED <<script, pdf_files, i, text, ocr, ret, results,
                   extracted_data, summary_csv, line_csv, onedrive,
                   csv_output, direct, ocr_calls, usable, log>>
    /\ UNCHANGED fn_vars

\* regex_ocr.process_pdf: text = extract_text_from_pdf(ocr_pdf_path)
ReAcquireText ==
    /\ script = "regex_ocr"
    /\ pc = "ocr_returned" /\ ocr
    /\ \E t \in DocTexts : text' = t /\ ocr_text' = t
    /\ pc' = "reacquired"
    /\ UNCHANGED <<script, pdf_files, i, ocr, ret, results, extracted_data,
                   summary_csv, line_csv, onedrive, csv_output, direct,
                   ocr_calls, usable, log>>
    /\ UNCHANGED fn_vars

\* regex_ocr.process_pdf: "if text.strip(): ... return fields, items",
\* else "return {}, []"
ReturnFields ==
    /\ script = "regex_ocr"
    /\ \/ pc = "acquired" /\ ~NeedsOcr(text)
       \/ pc = "ocr_returned" /\ ~ocr
       \/ pc = "reacquired"
    /\ ret' = IF HasText(text)
              THEN [fields |-> extract_fields(text),
                    items |-> extract_line_items(text)]
              ELSE [fields |-> EmptyDict, items |-> <<>>]
    /\ usable' = IF Strip(FinalText) # <<>>
                 THEN usable \cup {pdf_files[i]} ELSE usable
    /\ pc' = "returned"
    /\ UNCHANGED <<script, pdf_files, i, text, ocr, results, extracted_data,
                   summary_csv, line_csv, onedrive, csv_output, direct,
                   ocr_calls, ocr_text, log>>
    /\ UNCHANGED fn_vars

\* the document after the current one is skipped
Collect_SkipsNext ==
    /\ script = "regex_ocr"
    /\ pc = "returned"
    /\ results' = IF Truthy(ret.fields)
                  THEN DictPut(results, pdf_files[i], ret) ELSE results
    /\ i' = i + 2
    /\ pc' = "loop"
    /\ UNCHANGED <<script, pdf_files, text, ocr, ret, extracted_data,
                   summary_csv, line_csv, onedrive, csv_output, direct,
                   ocr_calls, ocr_text, usable, log>>
    /\ UNCHANGED fn_vars

\* regex_ocr.main: "if fields: results[pdf.name] = (fields, lines)"
Collect ==
    /\ script = "regex_ocr"
    /\ pc = "returned"
    /\ results' = IF Truthy(ret.fields)
                  THEN DictPut(results, pdf_files[i], ret) ELSE results
    /\ i' = i + 1
    /\ pc' = "loop"
    /\ UNCHANGED <<script, pdf_files, text, ocr, ret, extracted_data,
                   summary_csv, line_csv, onedrive, csv_output, direct,
                   ocr_calls, ocr_text, usable, log>>
    /\ UNCHANGED fn_vars

\* write_to_csv: "fields['pdf_filename'] = filename"
SummaryRow(entry) ==
    [k \in DOMAIN entry.fields \cup {"pdf_filename"} |->
        IF k = "pdf_filename" THEN entry.pdf_filename ELSE entry.fields[k]]

\* the missing fields are put in front of the item
Clean_PadFront(item) == [k \in 1..(5 - Len(item)) |-> <<>>] \o item

\* write_to_csv: "clean = item + [''] * (5 - len(item))"
Clean(item) == item \o [k \in 1..(5 - Len(item)) |-> <<>>]

\* line_index counts from 1
LineRows_OneBased(entry) ==
    LET orders == SplitOn(entry.fields.order_number, <<",", " ">>)
    IN  [idx \in 1..Len(entry.items) |->
            LET item == entry.items[idx]
                clean == Clean(item)
            IN  [pdf_filename |-> entry.pdf_filename,
                 line_index |-> idx,
                 order_number |-> IF Len(orders) = 1 THEN orders[1]
                                  ELSE Join(<<";">>, orders),
                 invoice_number |-> entry.fields.invoice_number,
                 sku |-> clean[1],
                 description |-> clean[2],
                 qty |-> clean[3],
                 unit_price |-> clean[4],
                 amount |-> clean[5],
                 freight_inc_gst |-> entry.fields.freight_inc_gst]]

\* write_to_csv: the dicts appended to line_data for one entry of results
LineRows(entry) ==
    LET orders == SplitOn(entry.fields.order_number, <<",", " ">>)
    IN  [idx \in 1..Len(entry.items) |->
            LET item == entry.items[idx]
                clean == Clean(item)
            IN  [pdf_filename |-> entry.pdf_filename,
                 line_index |-> idx - 1,
                 order_number |-> IF Len(orders) = 1 THEN orders[1]
                                  ELSE Join(<<";">>, orders),
                 invoice_number |-> entry.fields.invoice_number,
                 sku |-> clean[1],
                 description |-> clean[2],
                 qty |-> clean[3],
                 unit_price |-> clean[4],
                 amount |-> clean[5],
                 freight_inc_gst |-> entry.fields.freight_inc_gst]]

\* the last entry of results gets no summary row
SummaryData_DropsLast(d) == [k \in 1..(Len(d) - 1) |-> SummaryRow(d[k])]

\* write_to_csv: summary_data after the loop over results.items()
SummaryData(d) == [k \in 1..Len(d) |-> SummaryRow(d[k])]

\* the fields of the first entry are used for the rows of every entry
LineData_FirstFields(d) ==
    LET F[k \in 0..Len(d)] ==
            IF k = 0 THEN <<>>
            ELSE F[k - 1] \o LineRows([d[k] EXCEPT !.fields = d[1].fields])
    IN  F[Len(d)]

\* write_to_csv: line_data after the loop over results.items()
RECURSIVE LineData(_)
LineData(d) ==
    IF d = <<>> THEN <<>> ELSE LineRows(Head(d)) \o LineData(Tail(d))

\* the keys of a summary dict: those of extract_fields, then pdf_filename
summary_keys == Append(field_keys, "pdf_filename")

\* the keys of the dict literal appended to line_data
line_keys ==
    <<"pdf_filename", "line_index", "order_number", "invoice_number", "sku",
      "description", "qty", "unit_price", "amount", "freight_inc_gst">>

\* pd.DataFrame(data).to_csv(path, index=False): the header row names the
\* keys of the dicts in their insertion order; a DataFrame made of an
\* empty list has no column and the file has no column name
FrameToCsv(data, keys) == File(IF data = <<>> THEN <<>> ELSE keys, data)

\* how the two to_csv calls can end
WriteOutcomes == {"written", "summary_fails", "lines_fails"}

\* how the copy to onedrive_path can end
MirrorOutcomes == {"copied", "copy_fails"}

\* regex_ocr.main: write_to_csv(results, csv_summary_path,
\* csv_line_items_path) after the loop. An error of to_csv is not caught;
\* an error of the copy to onedrive_path is caught and logged.
WriteCsv ==
    /\ script = "regex_ocr"
    /\ pc = "loop" /\ i > Len(pdf_files)
    /\ results' = [k \in 1..Len(results) |->
                      [results[k] EXCEPT !.fields = SummaryRow(results[k])]]
    /\ \E w \in WriteOutcomes, m \in MirrorOutcomes :
          /\ summary_csv' = IF w = "summary_fails" THEN NoFile
                            ELSE FrameToCsv(SummaryData(results),
                                            summary_keys)
          /\ line_csv' = IF w = "written"
                         THEN FrameToCsv(LineData(results), line_keys)
                         ELSE NoFile
          /\ onedrive' = IF w = "written" /\ m = "copied"
                         THEN File(<<>>,
                                   <<FrameToCsv(SummaryData(results),
                                                summary_keys),
                                     FrameToCsv(LineData(results),
                                                line_keys)>>)
                         ELSE NoFile
          /\ log' = IF w # "written" THEN log
                    ELSE IF m = "copied"
                    THEN Append(log, [level |-> "INFO",
                                      event |-> "Exported to OneDrive"])
                    ELSE Append(log, [level |-> "ERROR",
                                      event |-> "Failed to copy to OneDrive"])
          /\ pc' = IF w = "written" THEN "done" ELSE "raised"
    /\ UNCHANGED <<script, pdf_files, i, text, ocr, ret, extracted_data,
                   csv_output, direct, ocr_calls, ocr_text, usable>>
    /\ UNCHANGED fn_vars

\* extract_text_from_pdf.process_pdf: "if text.strip(): return
\* extract_order_numbers(text)"
ReturnOrders ==
    /\ script = "extract_text_from_pdf"
    /\ pc = "acquired" /\ ~NeedsOcr(text)
    /\ \E l \in extract_order_numbers(text) : ret' = l
    /\ usable' = usable \cup {pdf_files[i]}
    /\ pc' = "returned"
    /\ UNCHANGED <<script, pdf_files, i, text, ocr, results, extracted_data,
                   summary_csv, line_csv, onedrive, csv_output, direct,
                   ocr_calls, ocr_text, log>>
    /\ UNCHANGED fn_vars

\* extract_text_from_pdf.process_pdf: "ocr_text =
\* extract_text_from_pdf(ocr_pdf_path); return extract_order_numbers(ocr_text)"
ReturnOcrOrders ==
    /\ script = "extract_text_from_pdf"
    /\ pc = "ocr_returned" /\ ocr
    /\ \E t \in DocTexts :
          /\ ocr_text' = t
          /\ \E l \in extract_order_numbers(t) : ret' = l
          /\ usable' = IF Strip(t) # <<>>
                       THEN usable \cup {pdf_files[i]} ELSE usable
    /\ pc' = "returned"
    /\ UNCHANGED <<script, pdf_files, i, text, ocr, results, extracted_data,
                   summary_csv, line_csv, onedrive, csv_output, direct,
                   ocr_calls, log>>
    /\ UNCHANGED fn_vars

\* extract_text_from_pdf.process_pdf: "return []", when run_ocr returned
\* False and in the except clause when run_ocr raised
ReturnNoOrders ==
    /\ script = "extract_text_from_pdf"
    /\ \/ pc = "ocr_returned" /\ ~ocr
       \/ pc = "ocr_raised"
    /\ ret' = <<>>
    /\ pc' = "returned"
    /\ UNCHANGED <<script, pdf_files, i, text, ocr, results, extracted_data,
                   summary_csv, line_csv, onedrive, csv_output, direct,
                   ocr_calls, ocr_text, usable, log>>
    /\ UNCHANGED fn_vars

\* extract_text_from_pdf.main: "if order_numbers: for order in
\* order_numbers: extracted_data.append([pdf_file.name, order])"
CollectOrders ==
    /\ script = "extract_text_from_pdf"
    /\ pc = "returned"
    /\ extracted_data' = extracted_data \o
           [k \in 1..Len(ret) |-> <<pdf_files[i], ret[k]>>]
    /\ i' = i + 1
    /\ pc' = "loop"
    /\ UNCHANGED <<script, pdf_files, text, ocr, ret, results, summary_csv,
                   line_csv, onedrive, csv_output, direct, ocr_calls,
                   ocr_text, usable, log>>
    /\ UNCHANGED fn_vars

\* extract_text_from_pdf.main: "if not pdf_files: ... return"
NoPdfFiles ==
    /\ script = "extract_text_from_pdf"
    /\ pc = "loop" /\ pdf_files = <<>>
    /\ log' = Append(log, [level |-> "WARNING",
                           event |-> "No PDF files found"])
    /\ pc' = "done"
    /\ UNCHANGED <<script, pdf_files, i, text, ocr, ret, results,
                   extracted_data, summary_csv, line_csv, onedrive,
                   csv_output, direct, ocr_calls, ocr_text, usable>>
    /\ UNCHANGED fn_vars

\* extract_text_from_pdf.main: the CSV export after the loop; an error of
\* the export is caught and logged
WriteOrdersCsv ==
    /\ script = "extract_text_from_pdf"
    /\ pc = "loop" /\ i > Len(pdf_files) /\ pdf_files # <<>>
    /\ \E written \in BOOLEAN :
          /\ csv_output' = IF written
                           THEN File(<<"Filename", "Order Number">>,
                                     extracted_data)
                           ELSE NoFile
          /\ log' = log \o
                 <<IF written
                   THEN [level |-> "INFO", event |-> "CSV export completed"]
                   ELSE [level |-> "ERROR",
                         event |-> "Failed to write CSV file"],
                   [level |-> "INFO", event |-> "Processing complete",
                    files_processed |-> Len(pdf_files)]>>
    /\ pc' = "done"
    /\ UNCHANGED <<script, pdf_files, i, text, ocr, ret, results,
                   extracted_data, summary_csv, line_csv, onedrive, direct,
                   ocr_calls, ocr_text, usable>>
    /\ UNCHANGED fn_vars

Next ==
    \/ ImportModule
    \/ AcquireText
    \/ RunOcr
    \/ RunOcrNoReturn
    \/ ReAcquireText
    \/ ReturnFields
    \/ Collect
    \/ WriteCsv
    \/ ReturnOrders
    \/ ReturnOcrOrders
    \/ ReturnNoOrders
    \/ CollectOrders
    \/ NoPdfFiles
    \/ WriteOrdersCsv

Spec == Init /\ [][Next]_vars

\* the positions from which the interpreter itself takes the next step; at
\* "ocr_waiting" the script is blocked in subprocess.run
Running ==
    {"import", "loop", "acquired", "ocr_returned", "ocr_raised",
     "reacquired", "returned"}

\* the positions at which the script has ended or is blocked
Stopped ==
    {"done", "raised", "onedrive_mkdir_raised", "ocr_dir_mkdir_raised",
     "ocr_waiting"}

\* the control moves on
Continue == pc \in Running /\ \E p \in Running \cup Stopped : p # pc /\ pc' = p

\* the interpreter keeps executing the script while it is not blocked
SpecFair == Spec /\ WF_pc(Continue)

(***************************************************************************)
(* extract_line_items applied to texts of up to MaxLines lines             *)
(***************************************************************************)
LineHeader == <<"D", "e", "s", "c", "r", "i", "p", "t", "i", "o", "n", " ", "S", "K", "U", " ", "Q", "t", "y", "/", "Q", "u", "a", "n", "t", "i", "t", "y", " ", "U", "n", "i", "t", " ", "P", "r", "i", "c", "e", " ", "A", "m", "o", "u", "n", "t">>

LineHeaderQty == <<"D", "e", "s", "c", "r", "i", "p", "t", "i", "o", "n", " ", " ", " ", "S", "K", "U", " ", " ", " ", "Q", "t", "y", " ", " ", " ", "U", "n", "i", "t", " ", "P", "r", "i", "c", "e", " ", " ", " ", "A", "m", "o", "u", "n", "t">>

LineRow5 == <<"W", "i", "d", "g", "e", "t", " ", " ", " ", "W", "-", "1", " ", " ", " ", "2", " ", " ", " ", "1", "0", ".", "0", "0", " ", " ", " ", "2", "0", ".", "0", "0">>

LineRow4 == <<"N", "u", "t", " ", " ", "N", "-", "4", " ", " ", "9", " ", " ", "0", ".", "1", "0">>

LineRow3 == <<"G", "a", "d", "g", "e", "t", " ", " ", " ", "G", "-", "2", " ", " ", " ", "7">>

LineRow6 == <<"B", "o", "l", "t", "\t", "B", "-", "3", "\t", "4", "\t", "1", ".", "5", "0", " ", "\t", "6", ".", "0", "0", "\t", "s", "p", "a", "r", "e">>

LineBlank == <<>>

LineTotals == <<"S", "u", "b", "t", "o", "t", "a", "l", " ", " ", " ", "2", "6", ".", "0", "0", " ", " ", " ", "A", "U", "D", " ", " ", " ", "i", "n", "c", "l">>

LineHeaderWide == <<"D", "e", "s", "c", "r", "i", "p", "t", "i", "o", "n", " ", " ", " ", "S", "K", "U", " ", " ", " ", "Q", "t", "y", " ", "Q", "u", "a", "n", "t", "i", "t", "y", " ", " ", " ", "U", "n", "i", "t", " ", "P", "r", "i", "c", "e", " ", " ", " ", "A", "m", "o", "u", "n", "t">>

LineFrags ==
    {LineHeader, LineHeaderQty, LineHeaderWide, LineRow5, LineRow4, LineRow3,
     LineRow6, LineBlank, LineTotals}

LineTexts ==
    {Join(<<"\n">>, ls) :
        ls \in UNION {[1..n -> LineFrags] : n \in 0..MaxLines}}

InitLines ==
    /\ BatchIdle
    /\ arg \in LineTexts
    /\ res = <<>>
    /\ call = "none"

ExtractLineItems ==
    /\ call = "none"
    /\ res' = extract_line_items(arg)
    /\ call' = "extract_line_items"
    /\ UNCHANGED arg
    /\ UNCHANGED batch_vars

NextLines == ExtractLineItems

SpecLines == InitLines /\ [][NextLines]_vars

(***************************************************************************)
(* extract_fields and extract_order_numbers applied to texts of up to      *)
(* MaxFrags fragments                                                      *)
(***************************************************************************)
FieldFrags ==
    { <<"O", "r", "d", "e", "r", " ", "N", "o", ":", " ", "3", "1", "0", "0", "1", "2", "3", "4", "5", "6", "\n">>,
      <<"O", "r", "d", "e", "r", " ", "N", "o", ":", " ", "3", "1", "0", "0", "1", "2", "3", "4", "5", "6", "7", "\n">>,
      <<"P", "O", "-", "3", "1", "0", "0", "7", "6", "5", "4", "3", "2", "1", " ">>,
      <<"3", "1", "0", "0", "1", "2", "3", "4", "5", "6", "7">>,
      <<"p", "u", "r", "c", "h", "a", "s", "e", " ", "o", "r", "d", "e", "r", " ", ":", " ", "3", "1", "0", "0", "0", "0", "0", "0", "0", "0", "1", "\n">>,
      <<"r", "e", "f", " ", "3", "1", "0", "0">> }

RECURSIVE Concat(_)
Concat(parts) ==
    IF parts = <<>> THEN <<>> ELSE Head(parts) \o Concat(Tail(parts))

FieldTexts ==
    {Concat(fs) : fs \in UNION {[1..n -> FieldFrags] : n \in 0..MaxFrags}}

InitFields ==
    /\ BatchIdle
    /\ arg \in FieldTexts
    /\ res = <<>>
    /\ call = "none"

ExtractFields ==
    /\ call = "none"
    /\ res' = extract_fields(arg)
    /\ call' = "extract_fields"
    /\ UNCHANGED arg
    /\ UNCHANGED batch_vars

ExtractOrderNumbers ==
    /\ call = "none"
    /\ res' \in extract_order_numbers(arg)
    /\ call' = "extract_order_numbers"
    /\ UNCHANGED arg
    /\ UNCHANGED batch_vars

NextFields == ExtractFields \/ ExtractOrderNumbers

SpecFields == InitFields /\ [][NextFields]_vars

(***************************************************************************)
(* extract_fields applied to invoice texts of up to MaxParts parts         *)
(***************************************************************************)
RecordParts ==
    { <<"I", "n", "v", "o", "i", "c", "e", " ", "N", "o", ":", " ", "I", "N", "V", "-", "1", "0", "0", "1", "\n", "P", "O", " ", "N", "u", "m", "b", "e", "r", ":", " ", "P", "O", "-", "7", "7", "8", "8", "\n">>,
      <<"I", "n", "v", " ", "N", "u", "m", "b", "e", "r", ":", " ", "I", "N", "V", "-", "2", "0", "0", "2", "\n", "R", "e", "f", "e", "r", "e", "n", "c", "e", ":", " ", "R", "E", "F", "-", "9", "\n">>,
      <<"I", "n", "v", "o", "i", "c", "e", " ", "D", "a", "t", "e", ":", " ", "0", "1", "/", "0", "2", "/", "2", "0", "2", "4", "\n", "D", "u", "e", " ", "D", "a", "t", "e", ":", " ", "1", "5", "/", "0", "2", "/", "2", "0", "2", "4", "\n">>,
      <<"D", "a", "t", "e", " ", "o", "f", " ", "i", "s", "s", "u", "e", ":", " ", "3", "-", "4", "-", "2", "4", "\n", "D", "u", "e", " ", "d", "a", "t", "e", " ", "3", "0", ".", "0", "4", ".", "2", "4", "\n">>,
      <<"T", "o", "t", "a", "l", " ", "A", "m", "o", "u", "n", "t", ":", " ", "$", "1", ",", "2", "3", "4", ".", "5", "0", "\n", "F", "r", "e", "i", "g", "h", "t", " ", "i", "n", "c", " ", "G", "S", "T", ":", " ", "$", "1", "2", ".", "5", "0", "\n">>,
      <<"G", "r", "a", "n", "d", " ", "T", "o", "t", "a", "l", " ", "A", "U", "D", " ", "9", "9", ".", "0", "0", "\n", "F", "r", "e", "i", "g", "h", "t", " ", "i", "n", "c", " ", "G", "S", "T", ":", " ", "0", ".", "0", "0", "\n">>,
      <<"S", "u", "p", "p", "l", "i", "e", "r", ":", " ", "A", "c", "m", "e", " ", "P", "t", "y", " ", "L", "t", "d", "\n", "A", "B", "N", ":", " ", "1", "2", " ", "3", "4", "5", " ", "6", "7", "8", " ", "9", "0", "1", "\n">>,
      <<"V", "e", "n", "d", "o", "r", " ", "-", " ", "B", "o", "l", "t", " ", "C", "o", "\n", "T", "a", "x", " ", "I", "D", ":", " ", "A", "B", "-", "1", "2", "3", "4", "5", "6", "\n">>,
      <<"t", "h", "a", "n", "k", "s", "\n">>,
      <<"n", "/", "a", "\n">>,
      <<"O", "r", "d", "e", "r", " ", "N", "o", ":", " ", "3", "1", "0", "0", "1", "2", "3", "4", "5", "6", "7", "\n">> }

RecordTexts ==
    {Concat(fs) : fs \in UNION {[1..n -> RecordParts] : n \in 0..MaxParts}}

InitRecord ==
    /\ BatchIdle
    /\ arg \in RecordTexts
    /\ res = <<>>
    /\ call = "none"

NextRecord == ExtractFields

SpecRecord == InitRecord /\ [][NextRecord]_vars

(***************************************************************************)
(* extract_text_from_pdf applied to documents of up to MaxPages pages      *)
(***************************************************************************)
\* page.get_text() raises
PageError == <<"get_text raises">>

\* what page.get_text() can yield
PageOutcomes ==
    {PageError, <<>>, <<"O", "r", "d", "e", "r", " ", "N", "o", ":", " ", "3", "1", "0", "0", "1", "2", "3", "4", "5", "6", "7", "\n">>, <<"p", "a", "g", "e", " ", "t", "w", "o">>}

\* a document: whether fitz.open succeeds, and its pages
Documents ==
    [opens : BOOLEAN,
     pages : UNION {[1..n -> PageOutcomes] : n \in 0..MaxPages}]

\* the pages of the document are read in turn and their text is put
\* together, with sep between two pages, until a page raises
RECURSIVE PageLoop(_, _, _, _)
PageLoop(pages, k, sep, acc) ==
    IF k > Len(pages) THEN [raised |-> FALSE, text |-> acc]
    ELSE IF pages[k] = PageError THEN [raised |-> TRUE, text |-> acc]
    ELSE PageLoop(pages, k + 1, sep,
                  IF k = 1 THEN pages[k] ELSE acc \o sep \o pages[k])

\* the text read before the error is returned
TextOrEmpty_Partial(r) == r.text

\* the except clause: "return ''"
TextOrEmpty(r) == IF r.raised THEN <<>> ELSE r.text

\* extract_text_from_pdf of regex_ocr.py ("\n".join of the page texts) and
\* of extract_text_from_pdf.py (text += page.get_text())
extract_text_from_pdf(module, doc) ==
    IF ~doc.opens THEN TextOrEmpty([raised |-> TRUE, text |-> <<>>])
    ELSE TextOrEmpty(PageLoop(doc.pages, 1,
                              IF module = "regex_ocr" THEN <<"\n">> ELSE <<>>,
                              <<>>))

InitPages ==
    /\ BatchIdle
    /\ arg \in Documents
    /\ res = <<>>
    /\ call = "none"

ExtractTextRegexOcr ==
    /\ call = "none"
    /\ res' = extract_text_from_pdf("regex_ocr", arg)
    /\ call' = "regex_ocr.extract_text_from_pdf"
    /\ UNCHANGED arg
    /\ UNCHANGED batch_vars

ExtractTextOrders ==
    /\ call = "none"
    /\ res' = extract_text_from_pdf("extract_text_from_pdf", arg)
    /\ call' = "extract_text_from_pdf.extract_text_from_pdf"
    /\ UNCHANGED arg
    /\ UNCHANGED batch_vars

NextPages == ExtractTextRegexOcr \/ ExtractTextOrders

SpecPages == InitPages /\ [][NextPages]_vars

(***************************************************************************)
(* Properties of the batch (specification Spec)                            *)
(***************************************************************************)
Names == SeqToSet(pdf_files)

\* number of rows of a relation that carry the file name n
RowCount(rows, n) ==
    Cardinality({k \in 1..Len(rows) : rows[k].pdf_filename = n})

\* C1: in a batch of N documents of which M yield no usable text, no
\* document ends the run, results holds exactly one entry per processed
\* document with usable text, and the written summary has N - M rows, one
\* per document with usable text, while a document without usable text has
\* no summary row and no line-item row.
C1_SummaryCount ==
    script = "regex_ocr" =>
        /\ pc = "raised" => i > Len(pdf_files)
        /\ pc = "loop" =>
              \A k \in 1..Len(pdf_files) :
                  RowCount(results, pdf_files[k]) =
                      IF k < i /\ pdf_files[k] \in usable THEN 1 ELSE 0
        /\ pc = "done" =>
              /\ summary_csv.written /\ line_csv.written
              /\ Len(summary_csv.rows) =
                     Len(pdf_files) - Cardinality(Names \ usable)
              /\ \A n \in Names :
                     RowCount(summary_csv.rows, n) =
                         IF n \in usable THEN 1 ELSE 0
              /\ \A n \in Names \ usable : RowCount(line_csv.rows, n) = 0

C1_Witness ==
    /\ script = "regex_ocr" /\ pc = "done"
    /\ usable # {} /\ Names \ usable # {}
    /\ Len(summary_csv.rows) = Cardinality(usable)
    /\ Len(line_csv.rows) > 0

\* C2: run_ocr is invoked for a file only when the directly extracted text
\* is empty after stripping; for a file with non-empty text it is never
\* invoked (both scripts).
C2_OcrOnlyWhenEmpty == ocr_calls > 0 => Strip(direct) = <<>>

C2_Witness ==
    /\ pc = "returned" /\ ocr_calls = 0
    /\ Strip(direct) # <<>>

\* C3: when the direct text is empty and run_ocr succeeded, what process_pdf
\* returns is computed from the text extracted from the OCR copy.
C3_FieldsFromOcrText ==
    (pc = "returned" /\ ocr) =>
        IF script = "regex_ocr"
        THEN ret = IF Strip(ocr_text) # <<>>
                   THEN [fields |-> extract_fields(ocr_text),
                         items |-> extract_line_items(ocr_text)]
                   ELSE [fields |-> EmptyDict, items |-> <<>>]
        ELSE ret \in extract_order_numbers(ocr_text)

C3_Witness ==
    /\ script = "regex_ocr" /\ pc = "returned" /\ ocr
    /\ Strip(direct) = <<>> /\ Strip(ocr_text) # <<>>
    /\ ret.fields.order_number # <<>> /\ ret.items # <<>>

\* C4: every row of the line-item file carries the file name of some row
\* of the summary file.
C4_NoOrphanLineItems ==
    line_csv.written =>
        /\ summary_csv.written
        /\ \A k \in 1..Len(line_csv.rows) :
               \E j \in 1..Len(summary_csv.rows) :
                   summary_csv.rows[j].pdf_filename =
                       line_csv.rows[k].pdf_filename

C4_Witness ==
    /\ line_csv.written
    /\ \E j, k \in 1..Len(line_csv.rows) :
           line_csv.rows[j].pdf_filename # line_csv.rows[k].pdf_filename

\* a text without usable content
IsBlank(t) == \A q \in 1..Len(t) : t[q] \in Whitespace

\* the position of the current document in the machine
\* Pending -> TextAcquired | OCRAttempted -> Extracted | Failed,
\* Terminal standing for the two terminal states
DocPhase ==
    IF pc \in {"ocr_waiting", "ocr_returned", "ocr_raised", "reacquired"}
    THEN "OCRAttempted"
    ELSE IF pc = "acquired" /\ ~IsBlank(direct) THEN "TextAcquired"
    ELSE IF pc = "returned" THEN "Terminal"
    ELSE "Pending"

PhaseTransitions ==
    {<<"Pending", "Pending">>, <<"Pending", "TextAcquired">>,
     <<"Pending", "OCRAttempted">>, <<"TextAcquired", "Terminal">>,
     <<"OCRAttempted", "OCRAttempted">>, <<"OCRAttempted", "Terminal">>,
     <<"Terminal", "Pending">>}

\* the terminal state of the current document is Extracted: its final text
\* is usable (regex_ocr) or holds an order number (extract_text_from_pdf);
\* otherwise it is Failed
DocExtracted ==
    IF script = "regex_ocr" THEN ~IsBlank(FinalText)
    ELSE OrderFindall(FinalText) # <<>>

\* the current document has rows in the accumulated result
Contributed(res_, data_) ==
    IF script = "regex_ocr"
    THEN RowCount(res_, pdf_files[i]) > 0
    ELSE \E k \in 1..Len(data_) : data_[k][1] = pdf_files[i]

\* C5: each document moves through Pending -> TextAcquired | OCRAttempted
\* -> Extracted | Failed, run_ocr is invoked at most once for it, and when
\* main takes over the result an Extracted document has contributed rows
\* and a Failed one has contributed nothing.
C5_DocumentStateMachine ==
    [][/\ <<DocPhase, DocPhase'>> \in PhaseTransitions
       /\ ocr_calls' <= 1
       /\ DocPhase = "Terminal" =>
              (Contributed(results', extracted_data') <=> DocExtracted)]_vars

C5_Witness ==
    /\ pc = "returned" /\ ocr_calls = 1 /\ ~ocr
    /\ ~DocExtracted /\ ~Contributed(results, extracted_data)

(***************************************************************************)
(* Properties of extract_fields and extract_order_numbers (specification   *)
(* SpecFields)                                                             *)
(***************************************************************************)
NoDuplicates(s) == \A j, k \in 1..Len(s) : j # k => s[j] # s[k]

\* the order ids that occur in a text: 3100 and seven digits
OrderIdsIn(t) ==
    {SubSeq(t, p, p + 10) : p \in {q \in 1..(Len(t) - 10) : IsOrderId(t, q)}}

\* the values serialized in an order_number field
OrderNumberValues(field) ==
    IF field = <<>> THEN <<>> ELSE SplitOn(field, <<",", " ">>)

\* C6 as stated: two occurrences of 3100123456 yield the single value
\* "3100123456".
C6_ExampleTenDigits ==
    (call = "extract_fields"
        /\ arg = <<"O", "r", "d", "e", "r", " ", "N", "o", ":", " ", "3", "1", "0", "0", "1", "2", "3", "4", "5", "6", "\n", "O", "r", "d", "e", "r", " ", "N", "o", ":", " ", "3", "1", "0", "0", "1", "2", "3", "4", "5", "6", "\n">>)
    => res.order_number = <<"3", "1", "0", "0", "1", "2", "3", "4", "5", "6">>

\* C6 amended: the order_number result holds each distinct matched order id
\* (3100 followed by seven digits) exactly once, however often it occurs;
\* two occurrences of 31001234567 yield the single value "31001234567",
\* and the ten-digit 3100123456 is not an order id and yields no value.
C6_OrderNumbersDeduplicated ==
    /\ call = "extract_fields" =>
          /\ NoDuplicates(OrderNumberValues(res.order_number))
          /\ SeqToSet(OrderNumberValues(res.order_number))
                 = SeqToSet(OrderFindall(arg))
          /\ SeqToSet(OrderNumberValues(res.order_number))
                 \subseteq OrderIdsIn(arg)
          /\ OrderIdsIn(arg) # {} => res.order_number # <<>>
          /\ arg = <<"O", "r", "d", "e", "r", " ", "N", "o", ":", " ", "3", "1", "0", "0", "1", "2", "3", "4", "5", "6", "7", "\n", "O", "r", "d", "e", "r", " ", "N", "o", ":", " ", "3", "1", "0", "0", "1", "2", "3", "4", "5", "6", "7", "\n">>
                 => res.order_number = <<"3", "1", "0", "0", "1", "2", "3", "4", "5", "6", "7">>
          /\ arg = <<"O", "r", "d", "e", "r", " ", "N", "o", ":", " ", "3", "1", "0", "0", "1", "2", "3", "4", "5", "6", "\n", "O", "r", "d", "e", "r", " ", "N", "o", ":", " ", "3", "1", "0", "0", "1", "2", "3", "4", "5", "6", "\n">>
                 => res.order_number = <<>>
    /\ call = "extract_order_numbers" =>
          /\ NoDuplicates(res)
          /\ SeqToSet(res) = SeqToSet(OrderFindall(arg))

C6_Witness ==
    /\ call = "extract_fields"
    /\ Len(OrderFindall(arg)) = 3
    /\ Len(OrderNumberValues(res.order_number)) = 2

(***************************************************************************)
(* Properties of extract_line_items (specification SpecLines)              *)
(***************************************************************************)
\* some whitespace-delimited token of the line contains the keyword
HasKeyword(toks, kw) == \E tok \in toks : Contains(tok, kw)

\* the lower-cased whitespace-separated tokens of a line
Tokens(line) == SeqToSet(SplitWs(LowerStr(line)))

\* the header line as the keyword groups describe it: description, sku,
\* qty or quantity, unit, price, amount
HeaderByGroups(line) ==
    LET toks == Tokens(line)
    IN  /\ HasKeyword(toks, <<"d", "e", "s", "c", "r", "i", "p", "t", "i", "o", "n">>)
        /\ HasKeyword(toks, <<"s", "k", "u">>)
        /\ HasKeyword(toks, <<"q", "t", "y">>) \/ HasKeyword(toks, <<"q", "u", "a", "n", "t", "i", "t", "y">>)
        /\ HasKeyword(toks, <<"u", "n", "i", "t">>)
        /\ HasKeyword(toks, <<"p", "r", "i", "c", "e">>)
        /\ HasKeyword(toks, <<"a", "m", "o", "u", "n", "t">>)

\* the line matches every one of the seven header keywords
HeaderAllKeywords(line) ==
    LET toks == Tokens(line)
    IN  /\ HeaderByGroups(line)
        /\ HasKeyword(toks, <<"q", "t", "y">>)
        /\ HasKeyword(toks, <<"q", "u", "a", "n", "t", "i", "t", "y">>)

\* the line is blank or begins with a totals keyword
EndsTable(line) ==
    \/ IsBlank(line)
    \/ \E kw \in { <<"t", "o", "t", "a", "l">>, <<"s", "u", "b", "t", "o", "t", "a", "l">>, <<"g", "s", "t">>, <<"g", "r", "a", "n", "d">> } :
          StartsWith(LowerStr(line), kw)

\* index of the first header line, Len(lines) + 1 when there is none
HeaderIndex(lines) ==
    LET H == {k \in 1..Len(lines) : HeaderAllKeywords(lines[k])}
    IN  IF H = {} THEN Len(lines) + 1
        ELSE CHOOSE k \in H : \A j \in H : k <= j

\* index of the first line after line h that ends the table,
\* Len(lines) + 1 when there is none
EndIndex(lines, h) ==
    LET E == {k \in (h + 1)..Len(lines) : EndsTable(lines[k])}
    IN  IF E = {} THEN Len(lines) + 1
        ELSE CHOOSE k \in E : \A j \in E : k <= j

\* the indices of the lines between the header and the end of the table
TableLines(lines) ==
    LET h == HeaderIndex(lines)
    IN  (h + 1)..(EndIndex(lines, h) - 1)

\* the fields each line splits into
Columns(lines) == [k \in 1..Len(lines) |-> ReSplitColumns(Strip(lines[k]))]

\* C7 as stated: a line is the header when each keyword group (qty or
\* quantity being one group) matches a token, so such a header followed
\* by one 5-column row and a blank line yields exactly one LineItem.
C7_HeaderByKeywordGroups ==
    LET lines == SplitLines(arg)
    IN  (/\ call = "extract_line_items"
         /\ Len(lines) \in {2, 3}
         /\ HeaderByGroups(lines[1])
         /\ lines[2] = LineRow5
         /\ Len(lines) = 3 => IsBlank(lines[3]))
        => Len(res) = 1

\* C8: a text without a line that matches all header keywords yields no
\* line item, whatever rows it holds.
C8_NoHeaderNoItems ==
    LET lines == SplitLines(arg)
    IN  (call = "extract_line_items" /\ HeaderIndex(lines) > Len(lines))
        => res = <<>>

C8_Witness ==
    LET lines == SplitLines(arg)
        cols == Columns(lines)
    IN  /\ call = "extract_line_items"
        /\ HeaderIndex(lines) > Len(lines)
        /\ Len(lines) >= 3
        /\ HeaderByGroups(lines[1])
        /\ Len(cols[2]) = 5
        /\ Len(cols[3]) = 4
        /\ res = <<>>

\* the j-th smallest element of a set of numbers
NthOf(S, j) == CHOOSE x \in S : Cardinality({y \in S : y < x}) = j - 1

\* C9: after the header a line with fewer than 4 fields is dropped and the
\* scan goes on, a line with 4 or more fields is kept with its first 5
\* fields; every LineItem has 4 or 5 fields.
C9_RowFieldCounts ==
    call = "extract_line_items" =>
        LET lines == SplitLines(arg)
            cols == Columns(lines)
            kept == {k \in TableLines(lines) : Len(cols[k]) >= 4}
        IN  /\ \A j \in 1..Len(res) : Len(res[j]) \in {4, 5}
            /\ Len(res) = Cardinality(kept)
            /\ \A j \in 1..Len(res) :
                   LET c == cols[NthOf(kept, j)]
                   IN  res[j] = [n \in 1..(IF Len(c) < 5 THEN Len(c) ELSE 5)
                                    |-> c[n]]

C9_Witness ==
    LET lines == SplitLines(arg)
        cols == Columns(lines)
    IN  /\ call = "extract_line_items"
        /\ Len(lines) >= 3
        /\ HeaderIndex(lines) = 1
        /\ Len(cols[2]) = 3
        /\ Len(cols[3]) = 6
        /\ Len(res) >= 1 /\ Len(res[1]) = 5

\* C10: after the header, the first line that is blank or begins with a
\* totals keyword ends the parsing; no later line yields a LineItem.
C10_TerminatorEndsParsing ==
    call = "extract_line_items" =>
        LET lines == SplitLines(arg)
            cols == Columns(lines)
            table == TableLines(lines)
        IN  /\ Len(res) <= Cardinality(table)
            /\ \A j \in 1..Len(res) :
                   \E k \in table :
                       /\ Len(cols[k]) >= 4
                       /\ Len(res[j]) <= Len(cols[k])
                       /\ res[j] = SubSeq(cols[k], 1, Len(res[j]))

C10_Witness ==
    LET lines == SplitLines(arg)
        cols == Columns(lines)
    IN  /\ call = "extract_line_items"
        /\ Len(lines) = 4
        /\ HeaderIndex(lines) = 1 /\ EndIndex(lines, 1) = 3
        /\ Len(cols[2]) >= 4
        /\ \/ HeaderAllKeywords(lines[4])
           \/ Len(cols[4]) >= 4 /\ ~EndsTable(lines[4])
        /\ Len(res) = 1

(***************************************************************************)
(* Properties of extract_fields on invoice texts (specification            *)
(* SpecRecord)                                                             *)
(***************************************************************************)
\* the position of the last digit of text, 0 when it has none
LastDigit(t) ==
    LET D == {q \in 1..Len(t) : t[q] \in Digits}
    IN  IF D = {} THEN 0 ELSE CHOOSE q \in D : \A r \in D : q >= r

\* C11 as stated: freight_inc_gst is "0.00" exactly when the text holds no
\* match of the freight pattern.
C11_DefaultExactlyWhenNoMatch ==
    call = "extract_fields" =>
        (res.freight_inc_gst = <<"0", ".", "0", "0">>
            <=> Findall(FREIGHT_PATTERN, arg) = <<>>)

\* C11: freight_inc_gst is the value of the last match of the freight
\* pattern, the amount that ends at the last digit of the text, and it is
\* "0.00" whenever the text holds no match (no digit).
C11_FreightLastMatch ==
    call = "extract_fields" =>
        LET matches == Findall(FREIGHT_PATTERN, arg)
            v == res.freight_inc_gst
            last == LastDigit(arg)
        IN  /\ (matches = <<>>) <=> (last = 0)
            /\ matches = <<>> => v = <<"0", ".", "0", "0">>
            /\ matches # <<>> =>
                  /\ v = Strip(matches[Len(matches)])
                  /\ Len(v) <= last
                  /\ v = SubSeq(arg, last - Len(v) + 1, last)

C11_Witness ==
    /\ call = "extract_fields"
    /\ LET matches == Findall(FREIGHT_PATTERN, arg)
       IN  /\ Len(matches) >= 2
           /\ Strip(matches[1]) # Strip(matches[Len(matches)])
           /\ res.freight_inc_gst = Strip(matches[Len(matches)])
           /\ res.freight_inc_gst = <<"$", "1", "2", ".", "5", "0">>

\* the stripped value of the leftmost match of a label + value pattern,
\* the empty string when the text holds no match
FirstValue(pattern, t) ==
    LET S == {s \in 1..(Len(t) + 1) :
                 MatchAt(pattern[1], pattern[2], t, s).found}
        s == CHOOSE q \in S : \A r \in S : q <= r
    IN  IF S = {} THEN <<>>
        ELSE Strip(MatchAt(pattern[1], pattern[2], t, s).value)

\* the invoice-number pattern with its label: the label, an optional
\* separator and the value
InvoiceLabelled ==
    <<SeqOf(<<InvoiceLabel, Ws, SepHash, Ws>>), INVOICE_PATTERN[2]>>

\* the text holds an invoice-number label
HasInvoiceLabel(t) ==
    \E s \in 1..Len(t) : Ends(InvoiceLabel, t, s) # <<>>

\* C12 as stated: each of the seven fields is the value of the first
\* label + value match of its pattern and is empty without such a match;
\* invoice_number is empty for a text without an invoice-number label.
C12_FirstLabelledValue ==
    call = "extract_fields" =>
        /\ res.invoice_number = FirstValue(InvoiceLabelled, arg)
        /\ ~HasInvoiceLabel(arg) => res.invoice_number = <<>>
        /\ res.invoice_date = FirstValue(DATE_PATTERN, arg)
        /\ res.due_date = FirstValue(DUE_DATE_PATTERN, arg)
        /\ res.total_amount = FirstValue(TOTAL_PATTERN, arg)
        /\ res.supplier = FirstValue(SUPPLIER_PATTERN, arg)
        /\ res.abn = FirstValue(ABN_PATTERN, arg)
        /\ res.po_number = FirstValue(PO_PATTERN, arg)

(***************************************************************************)
(* Determinism (specification SpecFields)                                  *)
(***************************************************************************)
\* C13 as stated: the result of extract_fields and of
\* extract_order_numbers is determined by the text, so the result at hand
\* is the only one an evaluation on this text can yield, the order of the
\* order numbers included.
C13_Deterministic ==
    /\ call = "extract_fields" => res = extract_fields(arg)
    /\ call = "extract_order_numbers" =>
           \A l \in extract_order_numbers(arg) : l = res

(***************************************************************************)
(* Properties of extract_text_from_pdf (specification SpecPages)           *)
(***************************************************************************)
\* opening the document or reading one of its pages fails
ExtractionFails(doc) ==
    ~doc.opens \/ \E k \in 1..Len(doc.pages) : doc.pages[k] = PageError

\* C14: extract_text_from_pdf returns the empty string when opening the
\* document or reading a page fails, without the text of the pages read
\* before the failure, and otherwise the text of every page in document
\* order (joined by "\n" in regex_ocr.py, concatenated in
\* extract_text_from_pdf.py); it returns a str in every case.
C14_TextOrEmptyString ==
    call \in {"regex_ocr.extract_text_from_pdf",
              "extract_text_from_pdf.extract_text_from_pdf"} =>
        IF ExtractionFails(arg) THEN res = <<>>
        ELSE IF call = "regex_ocr.extract_text_from_pdf"
             THEN res = Join(<<"\n">>, arg.pages)
             ELSE res = Concat(arg.pages)

C14_Witness ==
    /\ call = "extract_text_from_pdf.extract_text_from_pdf"
    /\ arg.opens /\ Len(arg.pages) = 3
    /\ arg.pages[1] # PageError /\ arg.pages[1] # <<>>
    /\ arg.pages[2] # PageError
    /\ arg.pages[3] = PageError
    /\ res = <<>>

(***************************************************************************)
(* Failures and reporting of the batch (specifications Spec and SpecFair)  *)
(***************************************************************************)
\* C15 as stated: run_ocr never raises to its caller, whatever happens to
\* the OCR process (both scripts).
C15_RunOcrNeverRaises == pc # "ocr_raised"

\* C16 as stated: an OCR invocation that waits for a process that never
\* exits is ended by a timeout, and the batch goes on to complete.
C16_OcrWaitIsBounded == (pc = "ocr_waiting") ~> (pc \in {"done", "raised"})

\* the write of the primary output relations failed
WriteFailed ==
    \/ /\ script = "regex_ocr" /\ pc \in {"done", "raised"}
       /\ ~(summary_csv.written /\ line_csv.written)
    \/ /\ script = "extract_text_from_pdf" /\ pc = "done"
       /\ pdf_files # <<>> /\ ~csv_output.written

\* C17 as stated: main ends with an error exactly when the write of the
\* primary output failed (both scripts); no document ends it.
C17_OnlyWriteFailurePropagates == WriteFailed <=> pc = "raised"

\* the mirror location could not be created or written
MirrorFailed ==
    \/ pc = "onedrive_mkdir_raised"
    \/ script = "regex_ocr" /\ pc = "done" /\ ~onedrive.written

\* C18 as stated: when the mirror location cannot be created or written
\* the two primary files are written completely and the run ends without
\* an error.
C18_MirrorFailureHarmless ==
    MirrorFailed =>
        /\ pc = "done"
        /\ summary_csv.written /\ line_csv.written
        /\ Len(summary_csv.rows) = Len(results)

\* the run came to its end without an error
Completed == pc = "done"

\* a log entry that reports the batch totals
ReportsTotals(entry) ==
    {"files_processed", "rows_extracted", "files_failed"}
        \subseteq DOMAIN entry

\* C19 as stated: every completed run reports the totals files processed,
\* rows extracted and files failed.
C19_TotalsReported ==
    Completed => \E k \in 1..Len(log) : ReportsTotals(log[k])

\* the columns of the two relations as specified
SummaryColumns ==
    <<"pdf_filename", "order_number", "invoice_number", "invoice_date",
      "due_date", "total_amount", "freight_inc_gst", "supplier", "abn",
      "po_number">>

LineItemColumns ==
    <<"pdf_filename", "line_index", "order_number", "invoice_number", "sku",
      "description", "qty", "unit_price", "amount", "freight_inc_gst">>

\* C20 as stated: the summary file and the line-item file each start with
\* a header row that names the specified columns in the specified order,
\* for every batch.
C20_HeaderRows ==
    /\ summary_csv.written => summary_csv.header = SummaryColumns
    /\ line_csv.written => line_csv.header = LineItemColumns


(***************************************************************************)
(* Properties of the two output relations and of the loop of main          *)
(* (specification Spec)                                                    *)
(***************************************************************************)
\* the rows of a relation that carry the file name n, in their order
RowsOf(rows, n) == SelectSeq(rows, LAMBDA r : r.pdf_filename = n)

\* C21 as stated: in every row of the line-item file order_number,
\* invoice_number and freight_inc_gst equal the values of the same fields
\* in the summary row with the same pdf_filename, for documents with zero,
\* one or several distinct order numbers.
C21_DenormalizedFieldsEqual ==
    line_csv.written =>
        \A k \in 1..Len(line_csv.rows) :
            \A j \in 1..Len(summary_csv.rows) :
                summary_csv.rows[j].pdf_filename =
                    line_csv.rows[k].pdf_filename
                => /\ line_csv.rows[k].order_number =
                          summary_csv.rows[j].order_number
                   /\ line_csv.rows[k].invoice_number =
                          summary_csv.rows[j].invoice_number
                   /\ line_csv.rows[k].freight_inc_gst =
                          summary_csv.rows[j].freight_inc_gst

\* the positions at which a document is being processed
InDocument ==
    {"acquired", "ocr_waiting", "ocr_returned", "ocr_raised", "reacquired",
     "returned"}

\* the positions at which main has left its loop
LoopLeft == {"done", "raised"}

\* a step of the loop of main: the list of documents never changes, the
\* index moves by one and only when the current document has returned, and
\* a document is entered only from between two documents
SequentialStep ==
    /\ pdf_files' = pdf_files
    /\ i' # i => pc = "returned" /\ pc' = "loop" /\ i' = i + 1
    /\ (pc = "returned" /\ pc' # pc) => pc' = "loop" /\ i' = i + 1
    /\ (pc' \in InDocument /\ pc \notin InDocument) =>
           pc = "loop" /\ pc' = "acquired" /\ i <= Len(pdf_files)
    /\ (pc' \in LoopLeft /\ pc \notin LoopLeft) =>
           pc = "loop" /\ i = Len(pdf_files) + 1

\* C22: documents are processed strictly sequentially and exactly once:
\* the steps of a document all finish before a step of the next document
\* begins, the index of the current document goes from 1 to the number of
\* documents in steps of one, and main leaves its loop only after the last
\* document.
C22_SequentialExactlyOnce ==
    /\ [](pc \in InDocument => i \in 1..Len(pdf_files))
    /\ [](pc \in {"loop"} \cup LoopLeft => i \in 1..(Len(pdf_files) + 1))
    /\ [](pc \in LoopLeft => i = Len(pdf_files) + 1)
    /\ [][SequentialStep]_vars

C22_Witness ==
    /\ pc \in LoopLeft /\ Len(pdf_files) = MaxDocs
    /\ i = MaxDocs + 1 /\ Cardinality(usable) >= 2

\* the line items of a text in the order of their lines: the first five
\* fields of every line of the table that has at least 4 fields
ItemsInTextOrder(t) ==
    LET lines == SplitLines(t)
        cols == Columns(lines)
        kept == {k \in TableLines(lines) : Len(cols[k]) >= 4}
    IN  [j \in 1..Cardinality(kept) |->
            LET c == cols[NthOf(kept, j)]
            IN  [n \in 1..(IF Len(c) < 5 THEN Len(c) ELSE 5) |-> c[n]]]

\* the five item columns of a row of the line-item file
ItemColumns(r) == <<r.sku, r.description, r.qty, r.unit_price, r.amount>>

\* an item filled up to five fields with empty strings
Padded(item) == [n \in 1..5 |-> IF n <= Len(item) THEN item[n] ELSE <<>>]

\* C23: within one document the rows of the line-item file keep the order
\* in which their lines appear in the text, and their line_index values
\* are 0, 1, ..., k-1 in that order, counting only retained rows and
\* restarting at 0 for each document.
C23_LineOrderAndIndex ==
    /\ (script = "regex_ocr" /\ pc = "returned" /\ ret.items # <<>>) =>
           ret.items = ItemsInTextOrder(text)
    /\ line_csv.written =>
           \A e \in 1..Len(results) :
               LET rows == RowsOf(line_csv.rows, results[e].pdf_filename)
               IN  /\ Len(rows) = Len(results[e].items)
                   /\ \A k \in 1..Len(rows) :
                          /\ rows[k].line_index = k - 1
                          /\ ItemColumns(rows[k]) =
                                 Padded(results[e].items[k])

C23_Witness ==
    /\ line_csv.written /\ Len(results) >= 2
    /\ \E e, f \in 1..Len(results) :
          /\ e # f
          /\ Len(RowsOf(line_csv.rows, results[e].pdf_filename)) = 2
          /\ RowsOf(line_csv.rows, results[e].pdf_filename)[2].line_index = 1
          /\ Len(RowsOf(line_csv.rows, results[f].pdf_filename)) >= 1
          /\ RowsOf(line_csv.rows, results[f].pdf_filename)[1].line_index = 0

\* the names of the documents processed so far that yielded usable text
UsableSoFar ==
    SelectSeq(SubSeq(pdf_files, 1, i - 1), LAMBDA n : n \in usable)

\* an entry of results holds a field record and line items together
WellFormedEntry(e) ==
    /\ DOMAIN e = {"pdf_filename", "fields", "items"}
    /\ DOMAIN e.fields = SeqToSet(field_keys)
    /\ \A k \in 1..Len(e.items) : Len(e.items[k]) \in {4, 5}

\* results changes only by one whole entry for the current document, made
\* of what process_pdf returned; the entries already there stay as they are
AppendsWholeEntry ==
    (script = "regex_ocr" /\ pc' \notin LoopLeft /\ results' # results) =>
        /\ pc = "returned"
        /\ results' = Append(results, [pdf_filename |-> pdf_files[i],
                                       fields |-> ret.fields,
                                       items |-> ret.items])

\* C24: at every point between two documents the accumulated result holds
\* exactly the documents processed so far that yielded usable text, each
\* with its field record and its line items stored together as one entry,
\* and a later document leaves the earlier entries as they are.
C24_PartialResultsConsistent ==
    /\ []((script = "regex_ocr" /\ pc = "loop") =>
            /\ Len(results) = Len(UsableSoFar)
            /\ \A e \in 1..Len(results) :
                   /\ results[e].pdf_filename = UsableSoFar[e]
                   /\ WellFormedEntry(results[e]))
    /\ [][AppendsWholeEntry]_vars

C24_Witness ==
    /\ script = "regex_ocr" /\ pc = "loop"
    /\ i = 3 /\ i <= Len(pdf_files)
    /\ Len(results) = 1 /\ results[1].items # <<>>
    /\ results[1].pdf_filename = pdf_files[2]

\* what process_pdf returns for a document whose direct text is d, whose
\* OCR run ended with o and whose OCR copy holds the text t
DocResult(d, o, t) ==
    LET final == IF Strip(d) = <<>> /\ o THEN t ELSE d
    IN  IF Strip(final) # <<>>
        THEN [fields |-> extract_fields(final),
              items |-> extract_line_items(final)]
        ELSE [fields |-> EmptyDict, items |-> <<>>]

\* the entries of the other documents are not touched when the current
\* document is collected
OthersUntouched ==
    (script = "regex_ocr" /\ pc' \notin LoopLeft) =>
        /\ Len(results') >= Len(results)
        /\ \A e \in 1..Len(results) : results'[e] = results[e]
        /\ \A e \in (Len(results) + 1)..Len(results') :
               results'[e].pdf_filename = pdf_files[i]

\* C25: the rows produced for a document depend only on that document's
\* own text and OCR outcome: what process_pdf returns is a function of the
\* document's direct text, OCR outcome and OCR text, collecting it leaves
\* the entries of the other documents untouched, and the summary row and
\* the line-item rows of a document are computed from its own entry only.
C25_RowsDependOnOwnDocument ==
    /\ []((script = "regex_ocr" /\ pc = "returned") =>
            ret = DocResult(direct, ocr, ocr_text))
    /\ [][OthersUntouched]_vars
    /\ []((summary_csv.written /\ line_csv.written) =>
            /\ Len(summary_csv.rows) = Len(results)
            /\ \A e \in 1..Len(results) :
                   /\ summary_csv.rows[e] = results[e].fields
                   /\ summary_csv.rows[e].pdf_filename =
                          results[e].pdf_filename
                   /\ RowsOf(line_csv.rows, results[e].pdf_filename) =
                          LineRows(results[e]))

C25_Witness ==
    /\ summary_csv.written /\ line_csv.written
    /\ Len(pdf_files) = 3 /\ Len(results) = 2
    /\ results[1].fields.order_number # results[2].fields.order_number
    /\ results[1].items # <<>> /\ results[2].items # <<>>
    /\ results[1].items # results[2].items

\* C26: every row of the line-item file carries the five item fields sku,
\* description, qty, unit_price and amount, taken from the 1st to the 5th
\* split field of its data line whatever the order of the columns in the
\* header; a row with only 4 split fields has the empty string as amount.
C26_PositionalItemFields ==
    /\ (script = "regex_ocr" /\ pc = "returned") =>
           LET cols == Columns(SplitLines(text))
           IN  \A j \in 1..Len(ret.items) :
                   \E k \in 1..Len(cols) :
                       /\ Len(cols[k]) >= 4
                       /\ Len(ret.items[j]) =
                              IF Len(cols[k]) < 5 THEN Len(cols[k]) ELSE 5
                       /\ \A n \in 1..Len(ret.items[j]) :
                              ret.items[j][n] = cols[k][n]
    /\ line_csv.written =>
           \A k \in 1..Len(line_csv.rows) :
               LET r == line_csv.rows[k]
               IN  /\ {"sku", "description", "qty", "unit_price", "amount"}
                          \subseteq DOMAIN r
                   /\ \E e \in 1..Len(results) :
                          /\ results[e].pdf_filename = r.pdf_filename
                          /\ r.line_index + 1 \in 1..Len(results[e].items)
                          /\ LET item == results[e].items[r.line_index + 1]
                             IN  /\ r.sku = item[1]
                                 /\ r.description = item[2]
                                 /\ r.qty = item[3]
                                 /\ r.unit_price = item[4]
                                 /\ r.amount = IF Len(item) >= 5
                                               THEN item[5] ELSE <<>>

C26_Witness ==
    /\ line_csv.written
    /\ \E j, k \in 1..Len(line_csv.rows) :
          /\ line_csv.rows[j].sku = <<"W", "i", "d", "g", "e", "t">>
          /\ line_csv.rows[j].description = <<"W", "-", "1">>
          /\ line_csv.rows[j].amount = <<"2", "0", ".", "0", "0">>
          /\ line_csv.rows[k].sku = <<"N", "u", "t">>
          /\ line_csv.rows[k].unit_price = <<"0", ".", "1", "0">>
          /\ line_csv.rows[k].amount = <<>>

\* the directly extracted text is not empty but holds whitespace only
WhitespaceOnly(t) == t # <<>> /\ t # NoText /\ IsBlank(t)

\* the OCR fallback gave no usable text: run_ocr failed, or the text of
\* the OCR copy is empty or whitespace only
OcrGaveNothing == ~ocr \/ IsBlank(ocr_text)

\* C27: a document whose directly extracted text is non-empty but holds
\* whitespace only is treated as having no usable text: OCR is attempted
\* for it, and when OCR fails or the OCR text is again empty or whitespace
\* only, process_pdf returns nothing and the document has no row in the
\* summary file and none in the line-item file.
C27_WhitespaceOnlyIsNoText ==
    /\ (pc = "returned" /\ WhitespaceOnly(direct)) =>
           /\ ocr_calls = 1
           /\ OcrGaveNothing =>
                  /\ pdf_files[i] \notin usable
                  /\ script = "regex_ocr" =>
                         ret = [fields |-> EmptyDict, items |-> <<>>]
                  /\ script = "extract_text_from_pdf" => ret = <<>>
    /\ (script = "regex_ocr" /\ pc = "loop") =>
           \A k \in 1..(i - 1) :
               pdf_files[k] \notin usable =>
                   RowCount(results, pdf_files[k]) = 0
    /\ (summary_csv.written /\ line_csv.written) =>
           \A n \in Names \ usable :
               /\ RowCount(summary_csv.rows, n) = 0
               /\ RowCount(line_csv.rows, n) = 0

C27_Witness ==
    /\ script = "regex_ocr" /\ pc = "returned"
    /\ WhitespaceOnly(direct) /\ ocr_calls = 1
    /\ ocr /\ WhitespaceOnly(ocr_text)
    /\ ret.fields = EmptyDict
    /\ results # <<>>

\* the rows main appends for the current document: one per order number
\* that process_pdf returned
OrderRows == [k \in 1..Len(ret) |-> <<pdf_files[i], ret[k]>>]

\* extracted_data changes only when a document is collected, by the rows
\* of that document; an error raised by run_ocr ends in "return []"
AppendsOrderRows ==
    /\ extracted_data' # extracted_data =>
           /\ script = "extract_text_from_pdf"
           /\ pc = "returned" /\ pc' = "loop"
           /\ extracted_data' = extracted_data \o OrderRows
    /\ (script = "extract_text_from_pdf" /\ pc = "returned" /\ pc' # pc) =>
           extracted_data' = extracted_data \o OrderRows
    /\ (pc = "ocr_raised" /\ pc' # pc) => pc' = "returned" /\ ret' = <<>>

\* C30: in the batch of extract_text_from_pdf.main the output holds one
\* (Filename, Order Number) row per distinct order number of each document
\* and no row for a document in which no order number is found (usable
\* text without a match, failed OCR, or empty OCR text); an error raised
\* while a document is processed is caught and the remaining documents are
\* still processed.
C30_OrderRowsPerDocument ==
    /\ []((script = "extract_text_from_pdf" /\ pc = "returned") =>
            /\ NoDuplicates(ret)
            /\ SeqToSet(ret) =
                   IF Strip(direct) # <<>>
                   THEN SeqToSet(OrderFindall(direct))
                   ELSE IF ocr THEN SeqToSet(OrderFindall(ocr_text))
                   ELSE {})
    /\ [][AppendsOrderRows]_vars
    /\ [](script = "extract_text_from_pdf" =>
            /\ pc # "raised"
            /\ pc = "done" => i = Len(pdf_files) + 1
            /\ csv_output.written =>
                   /\ csv_output.header = <<"Filename", "Order Number">>
                   /\ csv_output.rows = extracted_data)

C30_Witness ==
    /\ script = "extract_text_from_pdf" /\ pc = "done"
    /\ csv_output.written /\ Len(pdf_files) = 3
    /\ Len(csv_output.rows) = 2
    /\ csv_output.rows[1][1] = pdf_files[2]
    /\ csv_output.rows[2][1] = pdf_files[2]
    /\ csv_output.rows[1][2] # csv_output.rows[2][2]
    /\ pdf_files[1] \in usable /\ pdf_files[3] \notin usable

(***************************************************************************)
(* The field record (specification SpecRecord)                             *)
(***************************************************************************)
\* the text holds a match of a label + value pattern
Matches(pattern, t) ==
    \E s \in 1..(Len(t) + 1) : MatchAt(pattern[1], pattern[2], t, s).found

\* the fields of the record whose pattern has no match in the text, the
\* freight field left aside
AbsentFields(t) ==
    {f \in {"order_number"} : OrderIdsIn(t) = {}}
        \cup {f \in {"invoice_number"} : ~Matches(INVOICE_PATTERN, t)}
        \cup {f \in {"invoice_date"} : ~Matches(DATE_PATTERN, t)}
        \cup {f \in {"due_date"} : ~Matches(DUE_DATE_PATTERN, t)}
        \cup {f \in {"total_amount"} : ~Matches(TOTAL_PATTERN, t)}
        \cup {f \in {"supplier"} : ~Matches(SUPPLIER_PATTERN, t)}
        \cup {f \in {"abn"} : ~Matches(ABN_PATTERN, t)}
        \cup {f \in {"po_number"} : ~Matches(PO_PATTERN, t)}

\* the text holds no match of the freight pattern: it holds no digit
FreightAbsent(t) == LastDigit(t) = 0

\* C28 as stated: the record holds all nine field names and every absent
\* field, freight_inc_gst included, is the empty string.
C28_AbsentFieldIsEmpty ==
    (call = "extract_fields" /\ Strip(arg) # <<>>) =>
        /\ DOMAIN res = SeqToSet(field_keys)
        /\ \A f \in AbsentFields(arg) : res[f] = <<>>
        /\ FreightAbsent(arg) => res.freight_inc_gst = <<>>

\* C28 amended: the record returned by extract_fields always holds all
\* nine field names, each present whether or not the others matched; an
\* absent field is the empty string, except freight_inc_gst, which is
\* "0.00" when absent; so the record is never empty and a document with
\* usable text yields a summary row even when no field matched.
C28_AllNineFields ==
    call = "extract_fields" =>
        /\ DOMAIN res = SeqToSet(field_keys)
        /\ \A f \in AbsentFields(arg) : res[f] = <<>>
        /\ FreightAbsent(arg) => res.freight_inc_gst = <<"0", ".", "0", "0">>
        /\ Truthy(res)

C28_Witness ==
    /\ call = "extract_fields" /\ Strip(arg) # <<>>
    /\ Cardinality(AbsentFields(arg)) = 8 /\ FreightAbsent(arg)
    /\ \A f \in AbsentFields(arg) : res[f] = <<>>
    /\ res.freight_inc_gst = <<"0", ".", "0", "0">>
    /\ Truthy(res)

(***************************************************************************)
(* The header line of the table (specification SpecLines)                  *)
(***************************************************************************)
\* the number of retained lines of the table that come before line k
KeptBefore(kept, k) == Cardinality({m \in kept : m < k})

\* C29: in extract_line_items no line before the header line and not the
\* header line itself produces a line item, and only the first header line
\* is recognised: a later line that matches all header keywords is handled
\* as an ordinary data row, kept if it splits into at least 4 fields and
\* dropped otherwise, and the items found before it stay.
C29_OnlyFirstHeaderRecognised ==
    call = "extract_line_items" =>
        LET lines == SplitLines(arg)
            cols == Columns(lines)
            h == HeaderIndex(lines)
            e == EndIndex(lines, h)
            after == {k \in (h + 1)..Len(lines) :
                         k < e /\ Len(cols[k]) >= 4}
        IN  /\ Len(res) = Cardinality(after)
            /\ \A k \in (h + 1)..(e - 1) :
                   HeaderAllKeywords(lines[k]) =>
                       IF Len(cols[k]) >= 4
                       THEN /\ k \in after
                            /\ res[KeptBefore(after, k) + 1] =
                                   Take(cols[k], 5)
                       ELSE k \notin after
            /\ \A k \in after :
                   KeptBefore(after, k) + 1 \in 1..Len(res)
                   => res[KeptBefore(after, k) + 1][1] = cols[k][1]

C29_Witness ==
    LET lines == SplitLines(arg)
    IN  /\ call = "extract_line_items"
        /\ Len(lines) = 4
        /\ lines[1] = LineRow5
        /\ lines[2] = LineHeader
        /\ lines[3] = LineRow4
        /\ lines[4] = LineHeaderWide
        /\ Len(res) = 2
        /\ res[1][1] = <<"N", "u", "t">>
        /\ res[2] = << <<"D", "e", "s", "c", "r", "i", "p", "t", "i", "o", "n">>, <<"S", "K", "U">>, <<"Q", "t", "y", " ", "Q", "u", "a", "n", "t", "i", "t", "y">>,
                       <<"U", "n", "i", "t", " ", "P", "r", "i", "c", "e">>, <<"A", "m", "o", "u", "n", "t">> >>
====
